---------------------------- MODULE Spec2Model ----------------------------
(***************************************************************************)
(* A model of the goflow execution substrate:                              *)
(*   - the Excellent built-in functions (excellent/functions),             *)
(*   - the session / run / wait state machine and the set_contact_channel  *)
(*     action (flows/actions, flows/waits, flows/events),                  *)
(*   - the session asset getters over the shared asset cache               *)
(*     (flows/assets).                                                     *)
(*   - the documentation generator's buildDocs (cmd/docgen).               *)
(*   - the legacy migrator's variable mappers (legacy expressions).        *)
(* Five specifications share the module: SpecFn (pure functions), Spec     *)
(* (the session state machine), SpecCache (the asset layer), SpecDocs      *)
(* (buildDocs) and SpecMig (migrations over the shared mapper tree).       *)
(***************************************************************************)
EXTENDS Integers, Sequences, FiniteSets, TLC

VARIABLES
    call,       \* SpecFn: the last function call, [fn, args, result]
    status,     \* Spec: session status
    runs,       \* Spec: the run stack, innermost last
    contact,    \* Spec: the session's contact (NoContact when absent)
    nodeWait,   \* Spec: the wait object owned by the flow's wait node
    wait,       \* Spec: the session's wait (NoWait when absent)
    log,        \* Spec: the event log of the current resume
    applied,    \* Spec: how many events of log the engine has applied
    now,        \* Spec: the wall clock, in seconds
    op,         \* Spec: the last operation performed, with its inputs
    cache,      \* SpecCache: the cached entries, least recently used first
    fetching,   \* SpecCache: per cache key, the fetches the server is serving
    lookups,    \* SpecCache: per worker, the lookup it is blocked in
    cop,        \* SpecCache: the last cache operation, with what it returned
    currentRand,            \* SpecDocs: the process-wide random source
    currentUUIDGenerator,   \* SpecDocs: the process-wide UUID generator
    docs,       \* SpecDocs: the frame of buildDocs, [pc, defers, ds, ret, ...]
    migrationVars,  \* SpecMig: the map of the package variable migrationBaseVars
    mappers,        \* SpecMig: the varMapper structs that map reaches
    walk            \* SpecMig: the migration in progress, [state, keys, cursor, ...]

fnVars == <<call>>
sesVars == <<status, runs, contact, nodeWait, wait, log, applied, now, op>>
cacheVars == <<cache, fetching, lookups, cop>>
docVars == <<currentRand, currentUUIDGenerator, docs>>
migVars == <<migrationVars, mappers, walk>>
vars == <<call, status, runs, contact, nodeWait, wait, log, applied, now, op,
          cache, fetching, lookups, cop, currentRand, currentUUIDGenerator, docs,
          migrationVars, mappers, walk>>

(***************************************************************************)
(* Excellent values.  A value is a record [k, v]: k is the variant tag and *)
(* v its payload as text (an Error's message, a Text's characters, ...).   *)
(***************************************************************************)
XText(s) == [k |-> "text", v |-> s]
XNumber(s) == [k |-> "number", v |-> s]
XBoolean(b) == [k |-> "boolean", v |-> IF b THEN "true" ELSE "false"]
XError(m) == [k |-> "error", v |-> m]
XArray(s) == [k |-> "array", v |-> s]
XNil == [k |-> "nil", v |-> ""]

XBooleanTrue == XBoolean(TRUE)
XBooleanFalse == XBoolean(FALSE)

\* the largest number of arguments a variadic function is called with
MaxArgs == 3

ErrorMessages == {"e1", "e2"}

Values ==
    {XText(""), XText("false"), XText("FALSE"), XText("a"), XNumber("0"), XNumber("1"),
     XBooleanTrue, XBooleanFalse, XNil, XArray("[]"), XArray("[..]")}
    \cup {XError(m) : m \in ErrorMessages}

ArgLists == UNION {[1..n -> Values] : n \in 1..MaxArgs}

IsXError(x) == x.k = "error"

\* strings.ToLower over the texts of the model
ToLower(s) ==
    CASE s = "FALSE" -> "false"
      [] s = "A" -> "a"
      [] s = "Age" -> "age"
      [] OTHER -> s

\* XText.ToXBoolean: a text is truthy unless it is empty or "false"
XTextToXBoolean(s) == s # "" /\ ToLower(s) # "false"

\* the truth value each non-error variant reduces to
Truthy(x) ==
    CASE x.k = "text" -> XTextToXBoolean(x.v)
      [] x.k = "number" -> x.v # "0"
      [] x.k = "boolean" -> x.v = "true"
      [] x.k = "array" -> x.v # "[]"
      [] OTHER -> FALSE

\* types.ToXBoolean: (value, error); an Error argument is returned as the error
ToXBoolean(x) ==
    IF IsXError(x) THEN [err |-> TRUE, xerr |-> x, val |-> FALSE]
    ELSE [err |-> FALSE, xerr |-> x, val |-> Truthy(x)]

\* types.IsEmpty: nil, empty text and empty collections
IsEmpty(x) ==
    \/ x.k = "nil"
    \/ x.k = "text" /\ x.v = ""
    \/ x.k = "array" /\ x.v = "[]"

(***************************************************************************)
(* Built-in functions taking raw values (no argument conversion adapter).  *)
(***************************************************************************)

\* Array: the first Error argument if there is one, else the array
RECURSIVE ArrayLoop(_, _)
ArrayLoop(args, i) ==
    IF i > Len(args) THEN XArray(IF Len(args) = 0 THEN "[]" ELSE "[..]")
    ELSE IF IsXError(args[i]) THEN args[i]
    ELSE ArrayLoop(args, i + 1)

Array(args) == ArrayLoop(args, 1)

\* the loop of And: stops at the first Error or the first falsy argument
RECURSIVE AndLoop(_, _)
AndLoop(args, i) ==
    IF i > Len(args) THEN XBooleanTrue
    ELSE LET asBool == ToXBoolean(args[i]) IN
         IF asBool.err THEN asBool.xerr
         ELSE IF ~asBool.val THEN XBooleanFalse
         ELSE AndLoop(args, i + 1)

\* a variant of And that converts every argument before deciding
AndEager(args) ==
    IF \E i \in 1..Len(args) : IsXError(args[i])
    THEN args[CHOOSE i \in 1..Len(args) :
                  IsXError(args[i]) /\ \A j \in 1..(i - 1) : ~IsXError(args[j])]
    ELSE AndLoop(args, 1)

And(args) == AndLoop(args, 1)

\* the loop of Or: stops at the first Error or the first truthy argument
RECURSIVE OrLoop(_, _)
OrLoop(args, i) ==
    IF i > Len(args) THEN XBooleanFalse
    ELSE LET asBool == ToXBoolean(args[i]) IN
         IF asBool.err THEN asBool.xerr
         ELSE IF asBool.val THEN XBooleanTrue
         ELSE OrLoop(args, i + 1)

Or(args) == OrLoop(args, 1)

\* If: an Error test is returned; otherwise the selected branch, as it is
If(test, arg1, arg2) ==
    LET asBool == ToXBoolean(test) IN
    IF asBool.err THEN asBool.xerr
    ELSE IF asBool.val THEN arg1 ELSE arg2

\* a variant of Default that lets an Error test through
DefaultKeepsError(test, def) ==
    IF IsEmpty(test) THEN def ELSE test

\* Default: the fallback when test is empty or an Error, else test
Default(test, def) ==
    IF IsEmpty(test) \/ IsXError(test) THEN def ELSE test

(***************************************************************************)
(* Legacy expressions: the variable mappers of the migrator.  A Go string  *)
(* is the sequence of its pieces, split at every dot and at every format   *)
(* argument, so that joining and formatting are concatenations.            *)
(***************************************************************************)
Dot == "."

\* strings.Join(parts, "."), each part a string
RECURSIVE Join(_)
Join(parts) ==
    IF parts = <<>> THEN <<>>
    ELSE IF Len(parts) = 1 THEN parts[1]
    ELSE parts[1] \o <<Dot>> \o Join(Tail(parts))

\* a Go map with no entries (a nil map reads the same way)
NoMap == [k \in {} |-> <<>>]

\* what a mapper resolves a key to: a string, or another mapper
AsString(str) == [kind |-> "string", s |-> str]

ContextTopLevels ==
    <<"channel", "child", "contact", "date", "extra", "flow", "parent", "step">>

ExtraAsWebhookJSON == "webhook_json"
ExtraAsTriggerParams == "trigger_params"
ExtraAsFunction == "function"
ExtraVarsMapping == {ExtraAsWebhookJSON, ExtraAsTriggerParams, ExtraAsFunction}

varMapper(substitutions, base, baseVars, arbitraryNesting, arbitraryVars) ==
    [kind |-> "varMapper", substitutions |-> substitutions, base |-> base,
     baseVars |-> baseVars, arbitraryNesting |-> arbitraryNesting,
     arbitraryVars |-> arbitraryVars]

extraMapper(extraAs, path) == [kind |-> "extraMapper", extraAs |-> extraAs, path |-> path]

rebase(v, prefix) ==
    [v EXCEPT !.base = IF prefix # <<>> THEN prefix \o <<Dot>> \o v.base ELSE v.base]

\* varMapper.Resolve: a substitution, a fixed sub-item, or an arbitrary item
varMapperResolve(v, k) ==
    LET key == ToLower(k)
        newPath == IF v.base # <<>> THEN <<v.base>> ELSE <<>>
        arbitrary == (IF v.arbitraryNesting # <<>> THEN Append(newPath, v.arbitraryNesting)
                      ELSE newPath) \o <<(<<key>>)>>
    IN  IF key \in DOMAIN v.substitutions THEN AsString(v.substitutions[key])
        ELSE IF key \in DOMAIN v.baseVars
        THEN LET value == v.baseVars[key] IN
             IF value.kind = "varMapper"
             THEN IF Len(newPath) > 0 THEN rebase(value, Join(newPath)) ELSE value
             ELSE IF value.kind = "extraMapper" THEN value
             ELSE AsString(Join(Append(newPath, value.s)))
        ELSE IF DOMAIN v.arbitraryVars # {}
        THEN varMapper(NoMap, Join(arbitrary), v.arbitraryVars, <<>>, NoMap)
        ELSE AsString(Join(arbitrary))

varMapperString(v) ==
    IF "__default__" \in DOMAIN v.substitutions THEN v.substitutions["__default__"]
    ELSE v.base

\* the sub-items of a run result that were renamed
flowResultVars ==
    ("category" :> AsString(<<"category_localized">>)) @@ ("text" :> AsString(<<"input">>))
    @@ ("time" :> AsString(<<"created_on">>))

\* a variant of extraMapper.Resolve that reroutes a key named flow at any depth
extraMapperResolveAnyDepth(m, key) ==
    IF key = "flow"
    THEN varMapper(NoMap, <<"parent", Dot, "results">>, NoMap, <<>>, flowResultVars)
    ELSE extraMapper(m.extraAs, Join((IF m.path # <<>> THEN <<m.path>> ELSE <<>>) \o <<(<<key>>)>>))

\* extraMapper.Resolve: the key extends the path, except for a first key flow
extraMapperResolve(m, key) ==
    LET newPath == (IF m.path # <<>> THEN <<m.path>> ELSE <<>>) \o <<(<<key>>)>> IN
    IF m.path = <<>> /\ key = "flow"
    THEN varMapper(NoMap, <<"parent", Dot, "results">>, NoMap, <<>>, flowResultVars)
    ELSE extraMapper(m.extraAs, Join(newPath))

\* a variant of extraMapper.String that reads the webhook in every mode
extraMapperStringWebhook(m) ==
    <<"run", Dot, "webhook", Dot, "json", Dot>> \o m.path

extraMapperString(m) ==
    CASE m.extraAs = ExtraAsWebhookJSON ->
            <<"run", Dot, "webhook", Dot, "json", Dot>> \o m.path
      [] m.extraAs = ExtraAsTriggerParams ->
            <<"trigger", Dot, "params", Dot>> \o m.path
      [] m.extraAs = ExtraAsFunction ->
            <<"if(is_error(run", Dot, "webhook", Dot, "json", Dot>> \o m.path
            \o <<"), trigger", Dot, "params", Dot>> \o m.path
            \o <<", run", Dot, "webhook", Dot, "json", Dot>> \o m.path \o <<")">>
      [] OTHER -> <<>>

\* the URN schemes that get a mapper of their own (two of urns.ValidSchemes)
ValidSchemes == {"tel", "twitter"}

schemeMapper(scheme) ==
    varMapper(
        ("__default__" :> <<"format_urn(contact", Dot, "urns", Dot, scheme, ")">>)
        @@ ("display" :> <<"format_urn(contact", Dot, "urns", Dot, scheme, ")">>)
        @@ ("scheme" :> <<"contact", Dot, "urns", Dot, scheme, Dot, "0", Dot, "scheme">>)
        @@ ("path" :> <<"contact", Dot, "urns", Dot, scheme, Dot, "0", Dot, "path">>)
        @@ ("urn" :> <<"contact", Dot, "urns", Dot, scheme, Dot, "0">>),
        <<"urns", Dot, scheme>>, NoMap, <<>>, NoMap)

contactMapper ==
    varMapper(
        "groups" :> <<"join(contact", Dot, "groups, \",\")">>,
        <<"contact">>,
        [scheme \in ValidSchemes |-> schemeMapper(scheme)]
        @@ ("uuid" :> AsString(<<"uuid">>)) @@ ("id" :> AsString(<<"id">>))
        @@ ("name" :> AsString(<<"name">>)) @@ ("first_name" :> AsString(<<"first_name">>))
        @@ ("language" :> AsString(<<"language">>))
        @@ ("tel_e164" :> AsString(<<"urns", Dot, "tel", Dot, "0", Dot, "path">>)),
        <<"fields">>, NoMap)

newMigrationBaseVars ==
    ("contact" :> contactMapper)
    @@ ("flow" :> varMapper(NoMap, <<>>, "contact" :> contactMapper,
                            <<"run", Dot, "results">>, flowResultVars))
    @@ ("parent" :> varMapper(NoMap, <<"parent">>, "contact" :> contactMapper, <<"results">>,
                              "category" :> AsString(<<"category_localized">>)))
    @@ ("child" :> varMapper(NoMap, <<"child">>, "contact" :> contactMapper, <<"results">>,
                             "category" :> AsString(<<"category_localized">>)))
    @@ ("step" :> varMapper(
            ("__default__" :> <<"run", Dot, "input">>)
            @@ ("value" :> <<"run", Dot, "input">>)
            @@ ("text" :> <<"run", Dot, "input", Dot, "text">>)
            @@ ("attachments" :> <<"run", Dot, "input", Dot, "attachments">>)
            @@ ("time" :> <<"run", Dot, "input", Dot, "created_on">>),
            <<>>, "contact" :> contactMapper, <<>>, NoMap))
    @@ ("channel" :> varMapper(
            ("__default__" :> <<"contact", Dot, "channel", Dot, "address">>)
            @@ ("name" :> <<"contact", Dot, "channel", Dot, "name">>)
            @@ ("tel" :> <<"contact", Dot, "channel", Dot, "address">>)
            @@ ("tel_e164" :> <<"contact", Dot, "channel", Dot, "address">>),
            <<>>, NoMap, <<>>, NoMap))
    @@ ("date" :> varMapper(
            ("__default__" :> <<"now()">>)
            @@ ("now" :> <<"now()">>)
            @@ ("today" :> <<"today()">>)
            @@ ("tomorrow" :> <<"datetime_add(today(), 1, \"D\")">>)
            @@ ("yesterday" :> <<"datetime_add(today(), -1, \"D\")">>),
            <<>>, NoMap, <<>>, NoMap))

migrationBaseVars == newMigrationBaseVars

\* a variant of newMigrationVarMapper that adds no mapper for extra
newMigrationVarMapperNoExtra(extraAs) ==
    varMapper(NoMap, <<>>, migrationBaseVars, <<>>, NoMap)

\* the root mapper of a flow whose @extra is migrated as extraAs
newMigrationVarMapper(extraAs) ==
    varMapper(NoMap, <<>>, ("extra" :> extraMapper(extraAs, <<>>)) @@ migrationBaseVars,
              <<>>, NoMap)

\* Resolvable.Resolve and Resolvable.String, by the type of the mapper
Resolve(m, key) ==
    IF m.kind = "extraMapper" THEN extraMapperResolve(m, key) ELSE varMapperResolve(m, key)

String(m) ==
    IF m.kind = "extraMapper" THEN extraMapperString(m) ELSE varMapperString(m)

Unresolved == [kind |-> "unresolved", s |-> <<>>]

\* the migrator resolves a dotted reference key by key; a key under a plain
\* string cannot be resolved
RECURSIVE ResolvePath(_, _)
ResolvePath(m, keys) ==
    IF keys = <<>> THEN m
    ELSE IF m.kind \in {"varMapper", "extraMapper"}
    THEN ResolvePath(Resolve(m, Head(keys)), Tail(keys))
    ELSE Unresolved

\* the expression a legacy reference is rewritten to
Migrate(extraAs, keys) ==
    LET r == ResolvePath(newMigrationVarMapper(extraAs), keys) IN
    IF r.kind \in {"varMapper", "extraMapper"} THEN AsString(String(r)) ELSE r

\* how many keys may follow the top-level identifier of a reference
MaxKeys == 3

TopKeys == {ContextTopLevels[i] : i \in DOMAIN ContextTopLevels} \cup {"foo"}
SubKeys == {"flow", "category", "text", "time", "coupon", "Age"}
References ==
    {<<top>> \o rest : top \in TopKeys,
                       rest \in UNION {[1..n -> SubKeys] : n \in 0..MaxKeys}}

\* the keys that follow parent.contact and child.contact: the fixed keys, a
\* contact field, a URN scheme alone and a URN scheme with one of its keys
ContactKeys == {"name", "uuid", "tel_e164", "groups", "Age"}
SchemeKeys == {"display", "scheme", "path", "urn"}
ContactReferences ==
    {<<owner, "contact">> \o rest :
        owner \in {"parent", "child"},
        rest \in {<<>>} \cup {<<k>> : k \in ContactKeys \cup ValidSchemes}
                 \cup {<<s, k>> : s \in ValidSchemes, k \in SchemeKeys}}

(***************************************************************************)
(* The mapper tree in memory.  newMigrationBaseVars allocates one          *)
(* varMapper per top-level name and per URN scheme and links them by       *)
(* pointer: the tree is a heap from the name each mapper was allocated     *)
(* under to its struct, and a map value is a string, an extraMapper or a   *)
(* pointer into the heap.  Mappers allocated during a migration are held   *)
(* by the migrator alone and are values.                                   *)
(***************************************************************************)
Ptr(addr) == [kind |-> "ptr", s |-> <<addr>>]

\* a map of the tree, each *varMapper value replaced by its pointer
Pointers(m) == [k \in DOMAIN m |-> IF m[k].kind = "varMapper" THEN Ptr(k) ELSE m[k]]

\* the heap newMigrationBaseVars leaves: the struct behind every pointer
newMappers ==
    [addr \in DOMAIN newMigrationBaseVars \cup ValidSchemes |->
        LET v == IF addr \in ValidSchemes THEN contactMapper.baseVars[addr]
                 ELSE newMigrationBaseVars[addr]
        IN  [v EXCEPT !.baseVars = Pointers(@)]]

\* the map the package variable migrationBaseVars holds
newMigrationVars == Pointers(newMigrationBaseVars)

\* what a call returns and the heap it leaves
Returns(ret, heap) == [ret |-> ret, mappers |-> heap]

\* a variant of rebase that sets the new base in the mapper it is called on
rebaseInPlace(heap, p, prefix) ==
    Returns(p, [heap EXCEPT ![p.s[1]] = rebase(@, prefix)])

\* rebase called through a pointer: the copy is a new struct
rebaseOf(heap, p, prefix) ==
    Returns(rebase(heap[p.s[1]], prefix), heap)

\* the struct a Resolvable is: the one a pointer leads to, or the value
Deref(heap, c) == IF c.kind = "ptr" THEN heap[c.s[1]] ELSE c

\* varMapper.Resolve on the heap: a fixed sub-item that is a *varMapper is
\* returned as it is, or rebased when the mapper has a base
varMapperResolveOf(heap, v, k) ==
    LET key == ToLower(k)
        newPath == IF v.base # <<>> THEN <<v.base>> ELSE <<>>
    IN  IF /\ key \notin DOMAIN v.substitutions
           /\ key \in DOMAIN v.baseVars
           /\ v.baseVars[key].kind = "ptr"
        THEN IF Len(newPath) > 0 THEN rebaseOf(heap, v.baseVars[key], Join(newPath))
             ELSE Returns(v.baseVars[key], heap)
        ELSE Returns(varMapperResolve(v, k), heap)

ResolveOf(heap, c, key) ==
    LET m == Deref(heap, c) IN
    IF m.kind = "extraMapper" THEN Returns(extraMapperResolve(m, key), heap)
    ELSE varMapperResolveOf(heap, m, key)

StringOf(heap, c) == Returns(String(Deref(heap, c)), heap)

\* newMigrationVarMapper on the heap: the map is copied before extra is added
newMigrationVarMapperOf(shared, extraAs) ==
    [ret |-> varMapper(NoMap, <<>>, ("extra" :> extraMapper(extraAs, <<>>)) @@ shared,
                       <<>>, NoMap),
     vars |-> shared]

IsResolvable(c) == c.kind \in {"ptr", "varMapper", "extraMapper"}

\* the keys that follow the top-level identifier of a reference migrated
\* over the shared tree: they lead through the shared mappers
WalkKeys == {"contact", "tel", "path", "groups", "flow"}

\* no migration has started
NoWalk ==
    [state |-> "idle", extraAs |-> "none", keys |-> <<>>, cursor |-> Unresolved,
     result |-> Unresolved, earlier |-> FALSE]

\* the tree as the package initialisation leaves it
MigIdle ==
    /\ migrationVars = newMigrationVars
    /\ mappers = newMappers
    /\ walk = NoWalk

\* the specifications that migrate nothing leave the tree out
MigUnused ==
    /\ migrationVars = NoMap
    /\ mappers = NoMap
    /\ walk = NoWalk

(***************************************************************************)
(* Numbers are arbitrary-precision decimals: value * 10^exp.               *)
(***************************************************************************)
Decimal(value, exp) == [value |-> value, exp |-> exp]

RECURSIVE Pow10(_)
Pow10(n) == IF n <= 0 THEN 1 ELSE 10 * Pow10(n - 1)

\* integer division truncated toward zero
Quo(a, b) == IF a >= 0 THEN a \div b ELSE -((-a) \div b)

\* the same number with another exponent; digits below it are cut off
rescale(d, exp) ==
    IF exp <= d.exp THEN Decimal(d.value * Pow10(d.exp - exp), exp)
    ELSE Decimal(Quo(d.value, Pow10(exp - d.exp)), exp)

MinExp(a, b) == IF a.exp < b.exp THEN a.exp ELSE b.exp

DecimalAdd(a, b) ==
    Decimal(rescale(a, MinExp(a, b)).value + rescale(b, MinExp(a, b)).value, MinExp(a, b))

DecimalSub(a, b) ==
    Decimal(rescale(a, MinExp(a, b)).value - rescale(b, MinExp(a, b)).value, MinExp(a, b))

DecimalMul(a, b) == Decimal(a.value * b.value, a.exp + b.exp)

\* -1, 0 or 1 as a is below, equal to or above b
DecimalCmp(a, b) ==
    LET x == rescale(a, MinExp(a, b)).value
        y == rescale(b, MinExp(a, b)).value
    IN  IF x < y THEN -1 ELSE IF x > y THEN 1 ELSE 0

DecimalEqual(a, b) == DecimalCmp(a, b) = 0

\* the largest integer that is not above d
DecimalFloor(d) ==
    IF d.exp >= 0 THEN d ELSE Decimal(d.value \div Pow10(-d.exp), 0)

\* d to the nearest multiple of 10^(-places), a half going away from zero:
\* d is cut to places + 1 digits, half a unit is added to its magnitude,
\* and the last digit is dropped
DecimalRound(d, places) ==
    LET ret == rescale(d, -places - 1)
        v == IF ret.value < 0 THEN ret.value - 5 ELSE ret.value + 5
        q == v \div 10
        m == v % 10
    IN  Decimal(IF v < 0 /\ m # 0 THEN q + 1 ELSE q, ret.exp + 1)

\* a variant of RoundUp without the test for a value already at the precision
RoundUpAlways(num, places) ==
    XNumber(DecimalRound(DecimalAdd(num.v, Decimal(5, -places - 1)), places))

RoundUp(num, places) ==
    LET dec == num.v IN
    IF DecimalEqual(DecimalRound(dec, places), dec) THEN num
    ELSE LET halfPrecision == Decimal(5, -places - 1)
             roundedDec == DecimalRound(DecimalAdd(dec, halfPrecision), places)
         IN  XNumber(roundedDec)

RoundDown(num, places) ==
    LET dec == num.v IN
    IF DecimalEqual(DecimalRound(dec, places), dec) THEN num
    ELSE LET halfPrecision == Decimal(5, -places - 1)
             roundedDec == DecimalRound(DecimalSub(dec, halfPrecision), places)
         IN  XNumber(roundedDec)

\* RandBetween, given the value RandDecimal returned
RandBetween(min, max, randDecimal) ==
    LET span == DecimalAdd(DecimalSub(max.v, min.v), Decimal(1, 0))
        val == DecimalFloor(DecimalAdd(DecimalMul(randDecimal, span), min.v))
    IN  XNumber(val)

\* the numbers round_up and round_down are given: up to MaxCoef in
\* magnitude, in hundredths, tenths, units and tens
MaxCoef == 12
RoundNumbers == {Decimal(v, e) : v \in -MaxCoef..MaxCoef, e \in -2..1}
RoundPlaces == -1..1

\* the bounds of rand_between: up to MaxRange in magnitude, in units and
\* tenths; RandDecimal returns a number in [0, 1), here in tenths
MaxRange == 3
RangeNumbers == {Decimal(v, e) : v \in -MaxRange..MaxRange, e \in -1..0}
RandDecimals == {Decimal(v, -1) : v \in 0..9}

(***************************************************************************)
(* Text functions.  A Go string is the sequence of its bytes; the texts    *)
(* here are made of the one-byte characters a, b, 1, +, space and comma    *)
(* and of the two-byte character e-acute (bytes C3 A9).                    *)
(***************************************************************************)
EAcute == <<"C3", "A9">>

XTextEmpty == XText(<<>>)

\* a function that ran into a Go runtime panic
Panic(msg) == [k |-> "panic", v |-> msg]

\* types.ToXText on nil, an Error or a text: (text, error)
ToXText(x) ==
    IF x.k = "nil" THEN [xerr |-> FALSE, err |-> x, text |-> XTextEmpty]
    ELSE IF IsXError(x) THEN [xerr |-> TRUE, err |-> x, text |-> XTextEmpty]
    ELSE [xerr |-> FALSE, err |-> x, text |-> x]

\* types.ToInteger on an Error or an integral number: (int, error)
ToInteger(x) ==
    IF IsXError(x) THEN [xerr |-> TRUE, err |-> x, int |-> 0]
    ELSE [xerr |-> FALSE, err |-> x, int |-> x.v.value * Pow10(x.v.exp)]

\* the UTF-8 sequences of a string, in order; a byte that starts no valid
\* sequence is a piece of its own
RECURSIVE Runes(_)
Runes(s) ==
    IF s = <<>> THEN <<>>
    ELSE IF Len(s) >= 2 /\ SubSeq(s, 1, 2) = EAcute
    THEN <<EAcute>> \o Runes(SubSeq(s, 3, Len(s)))
    ELSE <<(<<s[1]>>)>> \o Runes(Tail(s))

\* utf8.RuneCountInString
RuneCountInString(s) == Len(Runes(s))

\* strings.Join(parts, sep)
RECURSIVE StringsJoin(_, _)
StringsJoin(parts, sep) ==
    IF parts = <<>> THEN <<>>
    ELSE IF Len(parts) = 1 THEN parts[1]
    ELSE parts[1] \o sep \o StringsJoin(Tail(parts), sep)

\* strings.Index: the first position (from 1) where sep occurs in s, or 0
Index(s, sep) ==
    LET at == {i \in 1..(Len(s) - Len(sep) + 1) : SubSeq(s, i, i + Len(sep) - 1) = sep} IN
    IF at = {} THEN 0 ELSE CHOOSE i \in at : \A j \in at : i <= j

\* strings.Split(s, sep); an empty sep splits after each UTF-8 sequence
RECURSIVE Split(_, _)
Split(s, sep) ==
    IF sep = <<>> THEN Runes(s)
    ELSE IF Index(s, sep) = 0 THEN <<s>>
    ELSE <<SubSeq(s, 1, Index(s, sep) - 1)>>
         \o Split(SubSeq(s, Index(s, sep) + Len(sep), Len(s)), sep)

\* strings.TrimSpace and strings.TrimLeft(s, "+")
RECURSIVE TrimLeft(_, _)
TrimLeft(s, c) == IF s # <<>> /\ s[1] = c THEN TrimLeft(Tail(s), c) ELSE s

RECURSIVE TrimRight(_, _)
TrimRight(s, c) ==
    IF s # <<>> /\ s[Len(s)] = c THEN TrimRight(SubSeq(s, 1, Len(s) - 1), c) ELSE s

TrimSpace(s) == TrimRight(TrimLeft(s, " "), " ")

\* utils.TokenizeString: the words of a text, split at spaces and punctuation
IsWordChar(c) == c \notin {" ", ","}

RECURSIVE TokenizeString(_)
TokenizeString(s) ==
    IF s = <<>> THEN <<>>
    ELSE IF ~IsWordChar(s[1]) THEN TokenizeString(Tail(s))
    ELSE LET n == CHOOSE n \in 1..Len(s) :
                      /\ \A i \in 1..n : IsWordChar(s[i])
                      /\ n = Len(s) \/ ~IsWordChar(s[n + 1])
         IN  <<SubSeq(s, 1, n)>> \o TokenizeString(SubSeq(s, n + 1, Len(s)))

\* the filter loop of Field: the fields that are not empty
RECURSIVE NonEmptyFields(_)
NonEmptyFields(fields) ==
    IF fields = <<>> THEN <<>>
    ELSE IF Head(fields) # <<>> THEN <<Head(fields)>> \o NonEmptyFields(Tail(fields))
    ELSE NonEmptyFields(Tail(fields))

\* WordSlice: the words of text from index start up to, not including, end
WordSlice(args) ==
    LET str == ToXText(args[1])
        start == ToInteger(args[2])
        endArg == IF Len(args) = 3 THEN ToInteger(args[3])
                  ELSE [xerr |-> FALSE, err |-> XNil, int |-> -1]
        words == TokenizeString(str.text.v)
        end == IF endArg.int >= Len(words) THEN Len(words) ELSE endArg.int
    IN  IF str.xerr THEN str.err
        ELSE IF start.xerr THEN start.err
        ELSE IF start.int < 0 THEN XError("must start with a positive index")
        ELSE IF endArg.xerr THEN endArg.err
        ELSE IF endArg.int > 0 /\ endArg.int <= start.int
        THEN XError("must have a end which is greater than the start")
        ELSE IF start.int >= Len(words) THEN XTextEmpty
        ELSE IF end > 0
        THEN XText(StringsJoin(SubSeq(words, start.int + 1, end), <<" ">>))
        ELSE XText(StringsJoin(SubSeq(words, start.int + 1, Len(words)), <<" ">>))

\* Field: the field of text at offset, text being split at the delimiter;
\* the offset is checked against the fields before the empty ones are dropped
Field(args) ==
    LET source == ToXText(args[1])
        field == ToInteger(args[2])
        sep == ToXText(args[3])
        fields == Split(source.text.v, sep.text.v)
        newFields == IF sep.text.v = <<" ">> THEN NonEmptyFields(fields) ELSE fields
    IN  IF source.xerr THEN source.err
        ELSE IF field.xerr THEN field.err
        ELSE IF field.int < 0 THEN XError("cannot use a negative index to FIELD")
        ELSE IF sep.xerr THEN sep.err
        ELSE IF field.int >= Len(fields) THEN XTextEmpty
        ELSE IF field.int >= Len(newFields) THEN Panic("index out of range")
        ELSE XText(TrimSpace(newFields[field.int + 1]))

\* the group loops of ReadChars: the bytes i .. i+size of val, split into
\* characters joined by spaces, the groups joined by " , "
RECURSIVE ReadGroups(_, _, _, _)
ReadGroups(val, length, size, i) ==
    IF i >= length THEN <<>>
    ELSE (IF i > 0 THEN <<" ", ",", " ">> ELSE <<>>)
         \o StringsJoin(Split(SubSeq(val, i + 1, i + size), <<>>), <<" ">>)
         \o ReadGroups(val, length, size, i + size)

\* ReadChars: groups of three or four characters, or single characters
ReadChars(val) ==
    LET stripped == TrimLeft(val.v, "+")
        length == RuneCountInString(stripped)
    IN  IF length % 3 = 0 THEN XText(ReadGroups(stripped, length, 3, 0))
        ELSE IF length % 4 = 0 THEN XText(ReadGroups(stripped, length, 4, 0))
        ELSE XText(StringsJoin(Runes(stripped), <<" ", ",", " ">>))

\* the texts given to word_slice and field: up to MaxText characters
MaxText == 5
TextsOf(alphabet) == {XText(t) : t \in UNION {[1..n -> alphabet] : n \in 0..MaxText}}

\* the word indexes and field offsets given: -1 .. MaxIndex
MaxIndex == 3
Indexes == {XNumber(Decimal(i, 0)) : i \in -1..MaxIndex}

\* the delimiters given to field
Delimiters == {XText(<<" ">>), XText(<<",">>), XText(<<>>)}

\* a call of word_slice without an Error argument; any one of the arguments
\* may be an Error instead
WithoutError == <<XText(<<"a", " ", "b">>), XNumber(Decimal(0, 0)), XNumber(Decimal(1, 0))>>

\* the texts given to read_chars: up to MaxChars characters
MaxChars == 8
ReadTexts ==
    {XText(StringsJoin(rs, <<>>)) :
        rs \in UNION {[1..n -> {<<"+">>, <<"1">>, EAcute}] : n \in 0..MaxChars}}

(***************************************************************************)
(* Dates and times.  A time is an instant shown in a location: the number  *)
(* of its day (day 0 is 1 January of the year 1), the second of that day   *)
(* and the location.  The times of the model are in the environment's      *)
(* timezone, a zone without clock changes.                                 *)
(***************************************************************************)
Time(days, secs, loc) == [days |-> days, secs |-> secs, loc |-> loc]

XDateTime(t) == [k |-> "datetime", v |-> t]

\* env.Timezone()
EnvTimezone == "America/Guayaquil"

isLeap(year) == year % 4 = 0 /\ (year % 100 # 0 \/ year % 400 = 0)

\* daysBefore[m + 1] is the number of days of a non-leap year before month m + 1
daysBefore == <<0, 31, 59, 90, 120, 151, 181, 212, 243, 273, 304, 334, 365>>

daysIn(month, year) ==
    IF month = 2 /\ isLeap(year) THEN 29 ELSE daysBefore[month + 1] - daysBefore[month]

\* norm: (hi, lo) with lo brought into 0 .. base - 1, the excess moved to hi
norm(hi, lo, base) == [hi |-> hi + lo \div base, lo |-> lo % base]

\* the number of days before 1 January of the year
daysSinceEpoch(year) ==
    LET y == year - 1 IN 365 * y + y \div 4 - y \div 100 + y \div 400

\* time.Date: out-of-range months, days and clock values are normalized
Date(year, month, day, hour, min, sec, loc) ==
    LET ym == norm(year, month - 1, 12)
        ds == norm(day, hour * 3600 + min * 60 + sec, 86400)
        d == daysSinceEpoch(ym.hi) + daysBefore[ym.lo + 1]
               + (IF isLeap(ym.hi) /\ ym.lo + 1 >= 3 THEN 1 ELSE 0)
               + ds.hi - 1
    IN  Time(d, ds.lo, loc)

\* Time.absDate: the year a day lies in and the day's position in it (0 for
\* 1 January), found by cutting off the cycles of 400, 100, 4 and 1 years
daysPer400Years == 146097
daysPer100Years == 36524
daysPer4Years == 1461
absDate(days) ==
    LET n400 == days \div daysPer400Years
        d400 == days - daysPer400Years * n400
        n100 == (d400 \div daysPer100Years) - ((d400 \div daysPer100Years) \div 4)
        d100 == d400 - daysPer100Years * n100
        n4 == d100 \div daysPer4Years
        d4 == d100 - daysPer4Years * n4
        n == (d4 \div 365) - ((d4 \div 365) \div 4)
    IN  [year |-> 400 * n400 + 100 * n100 + 4 * n4 + n + 1, yday |-> d4 - 365 * n]

\* the month and the day of the month of the day at position yday of a year
RECURSIVE MonthFrom(_, _, _)
MonthFrom(year, m, yday) ==
    IF yday < daysIn(m, year) THEN [month |-> m, day |-> yday + 1]
    ELSE MonthFrom(year, m + 1, yday - daysIn(m, year))

\* Time.Year, Time.Month, Time.Day, Time.Clock
Year(t) == absDate(t.days).year
Month(t) == MonthFrom(Year(t), 1, absDate(t.days).yday).month
Day(t) == MonthFrom(Year(t), 1, absDate(t.days).yday).day
Hour(t) == t.secs \div 3600
Minute(t) == (t.secs % 3600) \div 60
Second(t) == t.secs % 60

\* Time.AddDate
AddDate(t, years, months, days) ==
    Date(Year(t) + years, Month(t) + months, Day(t) + days,
         Hour(t), Minute(t), Second(t), t.loc)

\* a variant of DateTimeFromParts without the test of the month
DateTimeFromPartsAnyMonth(args) ==
    LET year == ToInteger(args[1])
        month == ToInteger(args[2])
        day == ToInteger(args[3])
    IN  IF year.xerr THEN year.err
        ELSE IF month.xerr THEN month.err
        ELSE IF day.xerr THEN day.err
        ELSE XDateTime(Date(year.int, month.int, day.int, 0, 0, 0, EnvTimezone))

DateTimeFromParts(args) ==
    LET year == ToInteger(args[1])
        month == ToInteger(args[2])
        day == ToInteger(args[3])
    IN  IF year.xerr THEN year.err
        ELSE IF month.xerr THEN month.err
        ELSE IF month.int < 1 \/ month.int > 12
        THEN XError("invalid value for month, must be 1-12")
        ELSE IF day.xerr THEN day.err
        ELSE XDateTime(Date(year.int, month.int, day.int, 0, 0, 0, EnvTimezone))

\* the parts given to datetime_from_parts: the MaxYears years up to
\* LastYear, the months and the days up to MaxPart past either end of
\* their ranges
LastYear == 2017
MaxYears == 2
MaxPart == 2
PartYears == {XNumber(Decimal(y, 0)) : y \in (LastYear - MaxYears + 1)..LastYear}
PartMonths == {XNumber(Decimal(m, 0)) : m \in (1 - MaxPart)..(12 + MaxPart)}
PartDays == {XNumber(Decimal(d, 0)) : d \in (1 - MaxPart)..(31 + MaxPart)}

(***************************************************************************)
(* 64-bit integers.  An int64 is kept as its four 16-bit words, lowest     *)
(* first, in two's complement, so that a decimal far beyond 64 bits can be *)
(* cut to an int64 the way big.Int.Int64 cuts it.                          *)
(***************************************************************************)
WordBase == 65536

\* the int64 of a natural number below 2^31
Int64(n) == <<n % WordBase, n \div WordBase, 0, 0>>

\* w * k for a small k, the bits above the 64th lost
Int64Mul(w, k) ==
    LET p1 == w[1] * k
        p2 == w[2] * k + p1 \div WordBase
        p3 == w[3] * k + p2 \div WordBase
        p4 == w[4] * k + p3 \div WordBase
    IN  <<p1 % WordBase, p2 % WordBase, p3 % WordBase, p4 % WordBase>>

\* w * 10^n, the bits above the 64th lost; four digits at a time, then one
RECURSIVE Int64Shift10(_, _)
Int64Shift10(w, n) ==
    IF n <= 0 THEN w
    ELSE IF n >= 4 THEN Int64Shift10(Int64Mul(w, 10000), n - 4)
    ELSE Int64Shift10(Int64Mul(w, 10), n - 1)

\* -w
Int64Neg(w) ==
    LET p1 == (WordBase - 1 - w[1]) + 1
        p2 == (WordBase - 1 - w[2]) + p1 \div WordBase
        p3 == (WordBase - 1 - w[3]) + p2 \div WordBase
        p4 == (WordBase - 1 - w[4]) + p3 \div WordBase
    IN  <<p1 % WordBase, p2 % WordBase, p3 % WordBase, p4 % WordBase>>

\* w < math.MinInt32 and w > math.MaxInt32
BelowMinInt32(w) ==
    w[4] >= WordBase \div 2
    /\ ~(w[4] = WordBase - 1 /\ w[3] = WordBase - 1 /\ w[2] >= WordBase \div 2)
AboveMaxInt32(w) ==
    w[4] < WordBase \div 2 /\ ~(w[4] = 0 /\ w[3] = 0 /\ w[2] < WordBase \div 2)

\* int(w) for a w within the 32-bit range, as a number
ToInt(w) ==
    IF w[4] = 0 THEN w[2] * WordBase + w[1] ELSE (w[2] - WordBase) * WordBase + w[1]

\* Decimal.IntPart: the number is cut to exponent 0 and big.Int.Int64 takes
\* the low 64 bits of its magnitude, negated for a negative number
IntPart(d) ==
    LET abs == IF d.value < 0 THEN -d.value ELSE d.value
        low64 == IF d.exp <= 0 THEN Int64(abs \div Pow10(-d.exp))
                 ELSE Int64Shift10(Int64(abs), d.exp)
    IN  IF d.value < 0 THEN Int64Neg(low64) ELSE low64

\* types.ToXDateTime on the values of the model: (datetime, error)
ToXDateTime(x) ==
    IF x.k = "datetime" THEN [xerr |-> FALSE, err |-> XNil, k |-> "datetime", v |-> x.v]
    ELSE IF IsXError(x) THEN [xerr |-> TRUE, err |-> x, k |-> "none", v |-> <<>>]
    ELSE [xerr |-> TRUE, err |-> XError("unable to convert to a datetime"),
          k |-> "none", v |-> <<>>]

\* types.ToXNumber on the values of the model: (number, error)
ToXNumber(x) ==
    IF x.k = "number" THEN [xerr |-> FALSE, err |-> XNil, k |-> "number", v |-> x.v]
    ELSE IF IsXError(x) THEN [xerr |-> TRUE, err |-> x, k |-> "none", v |-> <<>>]
    ELSE [xerr |-> TRUE, err |-> XError("unable to convert to a number"),
          k |-> "none", v |-> <<>>]

\* the day addition of LegacyAdd
LegacyAddDays(date, dec) ==
    LET days == IntPart(dec.v) IN
    IF BelowMinInt32(days) \/ AboveMaxInt32(days)
    THEN XError("cannot operate on integers greater than 32 bit")
    ELSE XDateTime(AddDate(date.v, 0, 0, ToInt(days)))

LegacyAdd(arg1, arg2) ==
    LET date1 == ToXDateTime(arg1)
        date2 == ToXDateTime(arg2)
        dec1 == ToXNumber(arg1)
        dec2 == ToXNumber(arg2)
    IN  IF ~date1.xerr /\ ~date2.xerr THEN XError("cannot operate on two dates")
        ELSE IF ~date1.xerr /\ ~dec2.xerr THEN LegacyAddDays(date1, dec2)
        ELSE IF ~date2.xerr /\ ~dec1.xerr THEN LegacyAddDays(date2, dec1)
        ELSE IF dec1.xerr THEN dec1.err
        ELSE IF dec2.xerr THEN dec2.err
        ELSE XNumber(DecimalAdd(dec1.v, dec2.v))

\* the arguments given to legacy_add, by kind: dates; numbers of up to
\* MaxDays in magnitude in tenths and units; a text that is neither a date
\* nor a number; nil and Errors; and numbers of up to MaxDays units of 10^9,
\* 10^10, 10^19 and 10^MaxExp, which are added to everything but a number
MaxDays == 3
MaxExp == 64
AddDates ==
    {XDateTime(Date(2017, 1, 15, 0, 0, 0, EnvTimezone)),
     XDateTime(Date(2016, 2, 28, 23, 59, 59, EnvTimezone)),
     XDateTime(Date(2017, 12, 31, 10, 50, 0, EnvTimezone))}
AddNumbers == {XNumber(Decimal(v, e)) : v \in -MaxDays..MaxDays, e \in {-1, 0}}
AddTexts == {XText(<<"a">>)}
AddOthers == {XNil} \cup {XError(m) : m \in ErrorMessages}
AddBigNumbers ==
    {XNumber(Decimal(v, e)) : v \in -MaxDays..MaxDays, e \in {9, 10, 19, MaxExp}}
AddKinds == <<AddDates, AddNumbers, AddTexts, AddOthers, AddBigNumbers>>

(***************************************************************************)
(* Durations.  A time.Duration is a signed 64-bit count of nanoseconds;    *)
(* it is kept as its sign and its magnitude in days and whole seconds (the *)
(* times of the model have no fraction of a second).                       *)
(***************************************************************************)
Duration(neg, days, secs) == [neg |-> neg, days |-> days, secs |-> secs]

\* the largest Duration, 2^63 - 1 nanoseconds: 106751 days and 85636.85.. s
maxDuration == Duration(FALSE, 106751, 85636)

\* time.Second, time.Minute and time.Hour, in seconds
TimeSecond == 1
TimeMinute == 60
TimeHour == 3600

\* Time.Sub: t - u, or the largest (smallest) Duration when t - u is beyond it
Sub(t, u) ==
    LET dd == t.days - u.days
        ds == t.secs - u.secs
        neg == dd < 0 \/ (dd = 0 /\ ds < 0)
        ad == IF neg THEN -dd ELSE dd
        as == IF neg THEN -ds ELSE ds
        days == IF as < 0 THEN ad - 1 ELSE ad
        secs == IF as < 0 THEN as + 86400 ELSE as
    IN  IF days > maxDuration.days \/ (days = maxDuration.days /\ secs > maxDuration.secs)
        THEN Duration(neg, maxDuration.days, maxDuration.secs)
        ELSE Duration(neg, days, secs)

\* int(duration / unit) for a unit of whole seconds that divides the day
DurationQuo(d, unit) ==
    LET q == d.days * (86400 \div unit) + d.secs \div unit
    IN  IF d.neg THEN -q ELSE q

\* utils.DaysBetween: the number of calendar days from date2 to date1
DaysBetween(date1, date2) == date1.days - date2.days

\* utils.MonthsBetween: the number of calendar months from date2 to date1
MonthsBetween(date1, date2) ==
    (Month(date1) - Month(date2)) + (Year(date1) - Year(date2)) * 12

NewXNumberFromInt(n) == XNumber(Decimal(n, 0))

DateTimeDiff(args) ==
    IF Len(args) # 3 THEN XError("takes exactly three arguments")
    ELSE
    LET date1 == ToXDateTime(args[1])
        date2 == ToXDateTime(args[2])
        unit == ToXText(args[3])
        duration == Sub(date1.v, date2.v)
    IN  IF date1.xerr THEN date1.err
        ELSE IF date2.xerr THEN date2.err
        ELSE IF unit.xerr THEN unit.err
        ELSE CASE unit.text.v = <<"s">> -> NewXNumberFromInt(DurationQuo(duration, TimeSecond))
               [] unit.text.v = <<"m">> -> NewXNumberFromInt(DurationQuo(duration, TimeMinute))
               [] unit.text.v = <<"h">> -> NewXNumberFromInt(DurationQuo(duration, TimeHour))
               [] unit.text.v = <<"D">> -> NewXNumberFromInt(DaysBetween(date1.v, date2.v))
               [] unit.text.v = <<"W">> ->
                      NewXNumberFromInt(Quo(DaysBetween(date1.v, date2.v), 7))
               [] unit.text.v = <<"M">> -> NewXNumberFromInt(MonthsBetween(date1.v, date2.v))
               [] unit.text.v = <<"Y">> -> NewXNumberFromInt(Year(date1.v) - Year(date2.v))
               [] OTHER -> XError("unknown unit, must be one of s, m, h, D, W, M, Y")

\* the dates given to datetime_diff: dates of the years up to LastYear, with
\* and without a time of day, and 1 January of the year MaxSpan years
\* before LastYear
MaxSpan == 300
DiffDates ==
    {XDateTime(Date(LastYear, 1, 17, 10, 50, 0, EnvTimezone)),
     XDateTime(Date(LastYear, 1, 17, 12, 30, 0, EnvTimezone)),
     XDateTime(Date(LastYear, 1, 17, 0, 0, 0, EnvTimezone)),
     XDateTime(Date(LastYear, 1, 1, 0, 0, 0, EnvTimezone)),
     XDateTime(Date(LastYear - 1, 12, 31, 23, 59, 59, EnvTimezone)),
     XDateTime(Date(LastYear - 2, 12, 17, 0, 0, 0, EnvTimezone)),
     XDateTime(Date(LastYear, 1, 3, 9, 30, 1, EnvTimezone))}
FarDates == {XDateTime(Date(LastYear - MaxSpan, 1, 1, 0, 0, 0, EnvTimezone))}
DiffUnits == {XText(<<u>>) : u \in {"s", "m", "h", "D", "W", "M", "Y", "d", "x"}}

(***************************************************************************)
(* left and right.  Ranging over a Go string yields its characters; a byte *)
(* that starts no valid UTF-8 sequence yields the replacement character.   *)
(***************************************************************************)
\* utf8.RuneError as WriteRune writes it
RuneError == <<"EF", "BF", "BD">>

\* the characters `for _, r := range s` yields, each as WriteRune writes it
RangeRunes(s) ==
    [i \in 1..Len(Runes(s)) |->
        IF Runes(s)[i] \in {<<"C3">>, <<"A9">>} THEN RuneError ELSE Runes(s)[i]]

\* the loop of Left over the characters from the i-th on (i counts from 0)
RECURSIVE LeftLoop(_, _, _)
LeftLoop(runes, count, i) ==
    IF i >= Len(runes) \/ i >= count THEN <<>>
    ELSE runes[i + 1] \o LeftLoop(runes, count, i + 1)

\* a variant of Left that takes count bytes
LeftBytes(text, count) ==
    IF count < 0 THEN XError("can't take a negative count")
    ELSE XText(SubSeq(text.v, 1, IF count < Len(text.v) THEN count ELSE Len(text.v)))

Left(text, count) ==
    IF count < 0 THEN XError("can't take a negative count")
    ELSE XText(LeftLoop(RangeRunes(text.v), count, 0))

\* the loop of Right over the characters from the i-th on (i counts from 0)
RECURSIVE RightLoop(_, _, _)
RightLoop(runes, start, i) ==
    IF i >= Len(runes) THEN <<>>
    ELSE (IF i >= start THEN runes[i + 1] ELSE <<>>) \o RightLoop(runes, start, i + 1)

Right(text, count) ==
    IF count < 0 THEN XError("can't take a negative count")
    ELSE LET start == RuneCountInString(text.v) - count
         IN  XText(RightLoop(RangeRunes(text.v), start, 0))

\* the texts given to left and right: up to MaxRunes pieces, each a, b,
\* e-acute or the lone byte C3; the counts: -1 .. MaxRunes + 1
MaxRunes == 4
CutTexts ==
    {XText(StringsJoin(rs, <<>>)) :
        rs \in UNION {[1..n -> {<<"a">>, <<"b">>, EAcute, <<"C3">>}] : n \in 0..MaxRunes}}
CutCounts == -1..(MaxRunes + 1)

(***************************************************************************)
(* SpecFn: one call of a built-in function per step, on inputs drawn from  *)
(* the bounded value set.                                                  *)
(***************************************************************************)
NoCall == [fn |-> "none", args |-> <<>>, result |-> XNil]

\* the arguments of a call that has not been evaluated yet
Pending(args) == [fn |-> "pending", args |-> args, result |-> XNil]

Called(fn, args, result) == [fn |-> fn, args |-> args, result |-> result]

CallArray ==
    /\ call.fn = "pending"
    /\ call' = Called("array", call.args, Array(call.args))
    /\ UNCHANGED <<sesVars, cacheVars, docVars, migVars>>

CallAnd ==
    /\ call.fn = "pending"
    /\ call' = Called("and", call.args, And(call.args))
    /\ UNCHANGED <<sesVars, cacheVars, docVars, migVars>>

CallOr ==
    /\ call.fn = "pending"
    /\ call' = Called("or", call.args, Or(call.args))
    /\ UNCHANGED <<sesVars, cacheVars, docVars, migVars>>

CallIf ==
    /\ call.fn = "pending"
    /\ Len(call.args) = 3
    /\ call' = Called("if", call.args, If(call.args[1], call.args[2], call.args[3]))
    /\ UNCHANGED <<sesVars, cacheVars, docVars, migVars>>

CallDefault ==
    /\ call.fn = "pending"
    /\ Len(call.args) = 2
    /\ call' = Called("default", call.args, Default(call.args[1], call.args[2]))
    /\ UNCHANGED <<sesVars, cacheVars, docVars, migVars>>

\* the arguments of a legacy reference that has not been migrated yet
PendingReference(extraAs, keys) ==
    [fn |-> "pending_reference", args |-> <<extraAs, keys>>, result |-> XNil]

CallMigrate ==
    /\ call.fn = "pending_reference"
    /\ call' = Called("migrate", call.args, Migrate(call.args[1], call.args[2]))
    /\ UNCHANGED <<sesVars, cacheVars, docVars, migVars>>

\* the arguments of a call of a number function
PendingNumbers(kind, args) == [fn |-> kind, args |-> args, result |-> XNil]

CallRandBetween ==
    /\ call.fn = "pending_rand_between"
    /\ call' = Called("rand_between", call.args,
                      RandBetween(call.args[1], call.args[2], call.args[3]))
    /\ UNCHANGED <<sesVars, cacheVars, docVars, migVars>>

CallRoundUp ==
    /\ call.fn = "pending_round"
    /\ call' = Called("round_up", call.args, RoundUp(call.args[1], call.args[2]))
    /\ UNCHANGED <<sesVars, cacheVars, docVars, migVars>>

CallRoundDown ==
    /\ call.fn = "pending_round"
    /\ call' = Called("round_down", call.args, RoundDown(call.args[1], call.args[2]))
    /\ UNCHANGED <<sesVars, cacheVars, docVars, migVars>>

\* the arguments of a call of a text function
PendingText(kind, args) == [fn |-> kind, args |-> args, result |-> XNil]

CallWordSlice ==
    /\ call.fn = "pending_word_slice"
    /\ call' = Called("word_slice", call.args, WordSlice(call.args))
    /\ UNCHANGED <<sesVars, cacheVars, docVars, migVars>>

CallField ==
    /\ call.fn = "pending_field"
    /\ call' = Called("field", call.args, Field(call.args))
    /\ UNCHANGED <<sesVars, cacheVars, docVars, migVars>>

CallReadChars ==
    /\ call.fn = "pending_read_chars"
    /\ call' = Called("read_chars", call.args, ReadChars(call.args[1]))
    /\ UNCHANGED <<sesVars, cacheVars, docVars, migVars>>

(***************************************************************************)
(* Events, contacts and the set_contact_channel action.                    *)
(***************************************************************************)
TypeFatalError == "fatal_error"
TypeContactChannelChanged == "contact_channel_changed"
TypeMsgWait == "msg_wait"
TypeNothingWait == "nothing_wait"
TypeMsgReceived == "msg_received"
TypeWaitTimedOut == "wait_timed_out"
TypeInputLabelsAdded == "input_labels_added"

Channels == {"ch1", "ch2"}

NoContact == [present |-> FALSE, channel |-> "none"]
Contacts == {[present |-> TRUE, channel |-> c] : c \in Channels \cup {"none"}}

Event(type, channel) == [type |-> type, channel |-> channel]
NewFatalErrorEvent == Event(TypeFatalError, "none")
NewContactChannelChangedEvent(ch) == Event(TypeContactChannelChanged, ch)
NewMsgWait == Event(TypeMsgWait, "none")
NewNothingWait == Event(TypeNothingWait, "none")

\* a variant of Execute that also writes the channel onto the contact
ExecuteDirect(ch, st) ==
    IF ~st.contact.present
    THEN [st EXCEPT !.log = Append(st.log, NewFatalErrorEvent)]
    ELSE [st EXCEPT !.log = Append(st.log, NewContactChannelChangedEvent(ch)),
                    !.contact = [st.contact EXCEPT !.channel = ch]]

\* a variant of Execute without the return after the fatal error
ExecuteNoReturn(ch, st) ==
    IF ~st.contact.present
    THEN [st EXCEPT !.log = Append(Append(st.log, NewFatalErrorEvent),
                                   NewContactChannelChangedEvent(ch))]
    ELSE [st EXCEPT !.log = Append(st.log, NewContactChannelChangedEvent(ch))]

\* a variant of Execute that returns the error it has logged
ExecuteReturnsError(ch, st) ==
    IF ~st.contact.present
    THEN [st EXCEPT !.log = Append(st.log, NewFatalErrorEvent),
                    !.err = "can't execute action in session without a contact"]
    ELSE [st EXCEPT !.log = Append(st.log, NewContactChannelChangedEvent(ch)),
                    !.err = ""]

\* SetContactChannelAction.Execute on st = [runs, contact, log, err]; the
\* action's channel reference is ch.  Returns the state it leaves, err being
\* the error it returns ("" for nil).
Execute(ch, st) ==
    IF ~st.contact.present
    THEN [st EXCEPT !.log = Append(st.log, NewFatalErrorEvent), !.err = ""]
    ELSE [st EXCEPT !.log = Append(st.log, NewContactChannelChangedEvent(ch)), !.err = ""]

(***************************************************************************)
(* Waits.  An absent timeout or timeout_on (a nil pointer) is None.        *)
(***************************************************************************)
None == -1

\* the largest timeout, in seconds, a wait is configured with
MaxTimeout == 1
\* the clock runs from 0 to MaxTime
MaxTime == 2
\* the largest number of caller events in one resume
MaxCallerEvents == 2
\* the largest number of events actions append in one resume
MaxLog == 2
\* the deepest run stack
MaxRuns == 2

NoWait == [type |-> "none", timeout |-> None, timeoutOn |-> None, run |-> 0]

\* baseWait.Begin does nothing
BaseWaitBegin(w) == w

\* baseTimeoutWait.Begin at instant t
Begin(w, t) ==
    IF w.timeout # None
    THEN BaseWaitBegin([w EXCEPT !.timeoutOn = t + w.timeout])
    ELSE BaseWaitBegin(w)

\* containsEventOfType: the loop over the events
RECURSIVE containsEventOfTypeFrom(_, _, _)
containsEventOfTypeFrom(events, eventType, i) ==
    IF i > Len(events) THEN FALSE
    ELSE IF events[i].type = eventType THEN TRUE
    ELSE containsEventOfTypeFrom(events, eventType, i + 1)

containsEventOfType(events, eventType) ==
    containsEventOfTypeFrom(events, eventType, 1)

\* a variant of CanResume that also resumes once timeout_on has passed
CanResumeElapsed(w, callerEvents) ==
    \/ containsEventOfType(callerEvents, TypeWaitTimedOut)
    \/ w.timeoutOn # None /\ now >= w.timeoutOn

\* a variant of CanResume that only looks at the first caller event
CanResumeFirst(w, callerEvents) ==
    Len(callerEvents) > 0 /\ callerEvents[1].type = TypeWaitTimedOut

\* baseTimeoutWait.CanResume
CanResume(w, callerEvents) ==
    containsEventOfType(callerEvents, TypeWaitTimedOut)

\* MsgWait.CanResume: a message was received, or the base wait can resume
MsgWaitCanResume(w, callerEvents) ==
    containsEventOfType(callerEvents, TypeMsgReceived) \/ CanResume(w, callerEvents)

\* the wait's resume predicate by wait type; a nothing wait always resumes
WaitCanResume(w, callerEvents) ==
    IF w.type = "msg" THEN MsgWaitCanResume(w, callerEvents) ELSE TRUE

(***************************************************************************)
(* The asset layer: asset types, the session's typed getters, and the      *)
(* shared cache in front of the asset server.                              *)
(***************************************************************************)
assetTypeLocationHierarchy == "location_hierarchy"
assetTypeChannelSet == "channel_set"
assetTypeFieldSet == "field_set"
assetTypeFlow == "flow"
assetTypeGroupSet == "group_set"
assetTypeLabelSet == "label_set"

\* the most entries the cache keeps (asset_cache_size, scaled down)
MaxSize == 2
\* the entries one eviction pass removes (asset_cache_prune, scaled down)
PruneCount == 1
\* the number of flows the sessions refer to
NumFlows == 1
\* the number of workers looking assets up concurrently
NumWorkers == 2

Workers == 1..NumWorkers
FlowUUIDs == 1..NumFlows

NoAsset == "nil"
NoError == ""
WrongTypeError == "asset cache contains asset with wrong type"
FetchError == "asset server error"

\* what cache.GetAsset returns: an asset (by its type) or an error
Fetched(asset) == [asset |-> asset, err |-> NoError]
Failed(err) == [asset |-> NoAsset, err |-> err]

CacheKey(type, key) == [type |-> type, key |-> key]

\* the session getters: name, and the cache key each passes to GetAsset
Getters ==
    {[name |-> "GetLocationHierarchy", key |-> CacheKey(assetTypeLocationHierarchy, 0)],
     [name |-> "GetChannelSet", key |-> CacheKey(assetTypeChannelSet, 0)],
     [name |-> "GetFieldSet", key |-> CacheKey(assetTypeFieldSet, 0)],
     [name |-> "GetGroupSet", key |-> CacheKey(assetTypeGroupSet, 0)],
     [name |-> "GetLabelSet", key |-> CacheKey(assetTypeLabelSet, 0)]}
    \cup {[name |-> "GetFlow", key |-> CacheKey(assetTypeFlow, u)] : u \in FlowUUIDs}

CacheKeys == {g.key : g \in Getters}

\* each getter returns the cache's error, an error for an asset that is not
\* of its type, or the asset
GetLocationHierarchy(raw) ==
    IF raw.err # NoError THEN Failed(raw.err)
    ELSE IF raw.asset # assetTypeLocationHierarchy THEN Failed(WrongTypeError)
    ELSE Fetched(raw.asset)

GetChannelSet(raw) ==
    IF raw.err # NoError THEN Failed(raw.err)
    ELSE IF raw.asset # assetTypeChannelSet THEN Failed(WrongTypeError)
    ELSE Fetched(raw.asset)

GetFieldSet(raw) ==
    IF raw.err # NoError THEN Failed(raw.err)
    ELSE IF raw.asset # assetTypeFieldSet THEN Failed(WrongTypeError)
    ELSE Fetched(raw.asset)

\* a variant of GetFlow without the type assertion
GetFlowUnchecked(raw) ==
    IF raw.err # NoError THEN Failed(raw.err) ELSE Fetched(raw.asset)

GetFlow(raw) ==
    IF raw.err # NoError THEN Failed(raw.err)
    ELSE IF raw.asset # assetTypeFlow THEN Failed(WrongTypeError)
    ELSE Fetched(raw.asset)

GetGroupSet(raw) ==
    IF raw.err # NoError THEN Failed(raw.err)
    ELSE IF raw.asset # assetTypeGroupSet THEN Failed(WrongTypeError)
    ELSE Fetched(raw.asset)

GetLabelSet(raw) ==
    IF raw.err # NoError THEN Failed(raw.err)
    ELSE IF raw.asset # assetTypeLabelSet THEN Failed(WrongTypeError)
    ELSE Fetched(raw.asset)

\* what getter g hands to its caller when the cache returned raw
GetterReturn(g, raw) ==
    CASE g.name = "GetLocationHierarchy" -> GetLocationHierarchy(raw)
      [] g.name = "GetChannelSet" -> GetChannelSet(raw)
      [] g.name = "GetFieldSet" -> GetFieldSet(raw)
      [] g.name = "GetFlow" -> GetFlow(raw)
      [] g.name = "GetGroupSet" -> GetGroupSet(raw)
      [] g.name = "GetLabelSet" -> GetLabelSet(raw)

\* the server answers a fetch of key k with an asset of the type asked for,
\* with an asset carrying another type tag, or with an error
WrongType(type) == IF type = assetTypeFlow THEN assetTypeChannelSet ELSE assetTypeFlow

Responses(k) == {Fetched(k.type), Fetched(WrongType(k.type)), Failed(FetchError)}

CachedKeys(c) == {c[i].key : i \in 1..Len(c)}

IndexOf(c, k) == CHOOSE i \in 1..Len(c) : c[i].key = k

Remove(c, i) == SubSeq(c, 1, i - 1) \o SubSeq(c, i + 1, Len(c))

\* a hit makes the entry the most recently used one
Touch(c, k) == Remove(c, IndexOf(c, k)) \o <<c[IndexOf(c, k)]>>

\* a variant of Prune that evicts nothing
PruneNever(c) == c

\* one eviction pass: when the size exceeds MaxSize the PruneCount least
\* recently used entries go
Prune(c) ==
    IF Len(c) > MaxSize THEN SubSeq(c, PruneCount + 1, Len(c)) ELSE c

\* a fetched asset enters the cache as the most recently used entry
Insert(c, k, asset) ==
    Prune((IF k \in CachedKeys(c) THEN Remove(c, IndexOf(c, k)) ELSE c)
          \o <<[key |-> k, asset |-> asset]>>)

\* a variant of SharesFetch in which every miss fetches for itself
SharesFetchNever(n) == FALSE

\* a miss joins the fetch under way for its key when there is one
SharesFetch(n) == n > 0

Idle == [busy |-> FALSE, getter |-> "none", key |-> CacheKey("none", 0)]
Blocked(g) == [busy |-> TRUE, getter |-> g.name, key |-> g.key]

Waiters(k) == {w \in Workers : lookups[w].busy /\ lookups[w].key = k}

NoCacheOp ==
    [name |-> "none", getter |-> "none", key |-> CacheKey("none", 0),
     raw |-> Failed(NoError), ret |-> Failed(NoError), served |-> 0, evicted |-> 0]

CacheIdle ==
    /\ cache = <<>>
    /\ fetching = [k \in CacheKeys |-> 0]
    /\ lookups = [w \in Workers |-> Idle]
    /\ cop = NoCacheOp

(***************************************************************************)
(* How each event changes the run it is applied to.                        *)
(***************************************************************************)
Run(st) == [status |-> st]

\* a variant of MsgWaitEvent.Apply that marks the run active again
MsgWaitEventApplyActivate(run) == [run EXCEPT !.status = "active"]

\* MsgWaitEvent.Apply leaves the run as it is
MsgWaitEventApply(run) == run

\* NothingWaitEvent.Apply leaves the run as it is
NothingWaitEventApply(run) == run

\* InputLabelsAddedEvent.Apply leaves the run as it is
InputLabelsAddedEventApply(run) == run

\* a fatal error event exits the run as errored
FatalErrorEventApply(run) == [run EXCEPT !.status = "errored"]

\* a contact_channel_changed event sets the contact's preferred channel
ContactChannelChangedEventApply(c, e) ==
    IF c.present THEN [c EXCEPT !.channel = e.channel] ELSE c

Top(rs) == rs[Len(rs)]
SetTop(rs, run) == [rs EXCEPT ![Len(rs)] = run]

(***************************************************************************)
(* Spec: the session state machine.                                        *)
(***************************************************************************)
CallerEventTypes == {TypeMsgReceived, TypeWaitTimedOut, TypeInputLabelsAdded}
CallerEvents ==
    UNION {[1..n -> {Event(t, "none") : t \in CallerEventTypes}] : n \in 0..MaxCallerEvents}

Op(name, events, res) ==
    [name |-> name, events |-> events, wtype |-> "none", res |-> res,
     channel |-> "none", err |-> ""]

\* the wait of the flow's wait node as read from its JSON: timeout and
\* timeout_on are both optional fields
ReadWaits ==
    {[type |-> "msg", timeout |-> t, timeoutOn |-> o, run |-> 0] :
        t \in {None} \cup 1..MaxTimeout, o \in {None, 0}}

SesInit ==
    /\ status = "active"
    /\ runs = <<Run("active")>>
    /\ contact \in {NoContact} \cup Contacts
    /\ nodeWait \in ReadWaits
    /\ wait = NoWait
    /\ log = <<>>
    /\ applied = 0
    /\ now = 0
    /\ op = Op("init", <<>>, FALSE)

\* the sweep is between two actions: every emitted event has been applied
Sweeping == status = "active" /\ applied = Len(log)

\* the engine executes a set_contact_channel action with channel ch
ExecuteAction ==
    \E ch \in Channels :
        /\ Sweeping
        /\ Len(log) < MaxLog
        /\ LET st == Execute(ch, [runs |-> runs, contact |-> contact, log |-> log,
                                   err |-> "unset"]) IN
            /\ runs' = st.runs
            /\ contact' = st.contact
            /\ log' = st.log
            /\ op' = [Op("execute", <<>>, FALSE) EXCEPT !.channel = ch, !.err = st.err]
        /\ UNCHANGED <<status, nodeWait, wait, applied, now, call, cacheVars, docVars, migVars>>

\* the engine applies the next event an action has emitted
ApplyEvent ==
    /\ status = "active"
    /\ applied < Len(log)
    /\ LET e == log[applied + 1] IN
        /\ applied' = applied + 1
        /\ IF e.type = TypeFatalError
           THEN /\ runs' = SetTop(runs, FatalErrorEventApply(Top(runs)))
                /\ status' = "errored"
                /\ contact' = contact
           ELSE /\ contact' = ContactChannelChangedEventApply(contact, e)
                /\ UNCHANGED <<runs, status>>
    /\ op' = Op("apply", <<>>, FALSE)
    /\ UNCHANGED <<nodeWait, wait, log, now, call, cacheVars, docVars, migVars>>

\* a child run is started and becomes the innermost run
StartFlow ==
    /\ Sweeping
    /\ Len(runs) < MaxRuns
    /\ runs' = Append(runs, Run("active"))
    /\ op' = Op("start_flow", <<>>, FALSE)
    /\ UNCHANGED <<status, contact, nodeWait, wait, log, applied, now, call, cacheVars, docVars, migVars>>

\* the innermost run reaches a terminal exit
ExitRun ==
    /\ Sweeping
    /\ runs' = SubSeq(runs, 1, Len(runs) - 1)
    /\ status' = IF Len(runs) = 1 THEN "completed" ELSE "active"
    /\ op' = Op("exit", <<>>, FALSE)
    /\ UNCHANGED <<contact, nodeWait, wait, log, applied, now, call, cacheVars, docVars, migVars>>

\* the sweep reaches the msg wait node: the wait begins, its event is emitted
\* and applied, and the session hands control back
BeginMsgWait ==
    /\ Sweeping
    /\ nodeWait' = Begin(nodeWait, now)
    /\ wait' = [nodeWait' EXCEPT !.run = Len(runs)]
    /\ runs' = SetTop(runs, MsgWaitEventApply(Run("waiting")))
    /\ log' = Append(log, NewMsgWait)
    /\ applied' = Len(log')
    /\ status' = "waiting"
    /\ op' = Op("begin", <<>>, FALSE)
    /\ UNCHANGED <<contact, now, call, cacheVars, docVars, migVars>>

\* the sweep reaches a nothing wait
BeginNothingWait ==
    /\ Sweeping
    /\ wait' = [type |-> "nothing", timeout |-> None, timeoutOn |-> None,
                run |-> Len(runs)]
    /\ runs' = SetTop(runs, NothingWaitEventApply(Run("waiting")))
    /\ log' = Append(log, NewNothingWait)
    /\ applied' = Len(log')
    /\ status' = "waiting"
    /\ op' = Op("begin", <<>>, FALSE)
    /\ UNCHANGED <<contact, nodeWait, now, call, cacheVars, docVars, migVars>>

\* the caller resumes the waiting session with caller events
Resume ==
    \E evs \in CallerEvents :
        /\ status = "waiting"
        /\ op' = [Op("resume", evs, CanResume(wait, evs)) EXCEPT !.wtype = wait.type]
        /\ IF WaitCanResume(wait, evs)
           THEN /\ wait' = NoWait
                /\ status' = "active"
                /\ runs' = SetTop(runs, InputLabelsAddedEventApply(Run("active")))
                /\ log' = <<>>
                /\ applied' = 0
           ELSE /\ log' = <<>>
                /\ applied' = 0
                /\ UNCHANGED <<wait, status, runs>>
        /\ UNCHANGED <<contact, nodeWait, now, call, cacheVars, docVars, migVars>>

\* time passes
Tick ==
    /\ now < MaxTime
    /\ now' = now + 1
    /\ op' = Op("tick", <<>>, FALSE)
    /\ UNCHANGED <<status, runs, contact, nodeWait, wait, log, applied, call, cacheVars, docVars, migVars>>

(***************************************************************************)
(* cmd/docgen: buildDocs runs the documentation examples with a seeded     *)
(* random source and a seeded UUID generator installed process-wide.       *)
(***************************************************************************)
\* the seed buildDocs gives both generators
docgenSeed == 123456

\* the seed of a generator the caller of buildDocs may have installed
callerSeed == 1

\* how many values are drawn from a seeded generator before it is replaced
MaxDraws == 2

DefaultRand == [kind |-> "default", seed |-> 0, draws |-> 0]
NewSeededRand(seed) == [kind |-> "seeded", seed |-> seed, draws |-> 0]
DefaultUUIDGenerator == [kind |-> "default", seed |-> 0, draws |-> 0]
NewSeededUUID4Generator(seed) == [kind |-> "seeded", seed |-> seed, draws |-> 0]

\* a generator after n more values were drawn from it: only a seeded
\* generator has a position in its sequence
Drawn(g, n) ==
    IF g.kind = "seeded" /\ g.draws + n <= MaxDraws THEN [g EXCEPT !.draws = @ + n] ELSE g

\* the context keys of the five documentation sets
docSets == <<"contextDocs", "functionDocs", "testDocs", "actionDocs", "eventDocs">>

\* the deferred calls of buildDocs, by the call they make
DeferServerClose == "server.Close()"
DeferSetRand == "utils.SetRand(utils.DefaultRand)"
DeferSetUUIDGenerator == "utils.SetUUIDGenerator(utils.DefaultUUIDGenerator)"

NoFrame ==
    [pc |-> "idle", defers |-> <<>>, ds |-> 0, ret |-> "none", installed |-> FALSE,
     entryRand |-> DefaultRand, entryUUID |-> DefaultUUIDGenerator]

DocsIdle ==
    /\ currentRand = DefaultRand
    /\ currentUUIDGenerator = DefaultUUIDGenerator
    /\ docs = NoFrame

\* a variant of Return that leaves the function without running its deferred calls
ReturnNoDefers(d, ret) == [d EXCEPT !.pc = "returned", !.ret = ret, !.defers = <<>>]

\* a return statement: the result is set, then the deferred calls run
Return(d, ret) == [d EXCEPT !.pc = "returning", !.ret = ret]

Defer(d, c) == [d EXCEPT !.defers = Append(@, c)]

\* the caller of buildDocs (a test) installs generators of its own, or the defaults
CallerSwap ==
    /\ docs.pc \in {"idle", "returned"}
    /\ currentRand' \in {DefaultRand, NewSeededRand(callerSeed)}
    /\ currentUUIDGenerator' \in {DefaultUUIDGenerator, NewSeededUUID4Generator(callerSeed)}
    /\ docs' = NoFrame
    /\ UNCHANGED <<fnVars, sesVars, cacheVars, migVars>>

\* buildDocs is called
BuildDocs ==
    /\ docs.pc \in {"idle", "returned"}
    /\ docs' = [NoFrame EXCEPT !.pc = "NewTestHTTPServer", !.entryRand = currentRand,
                               !.entryUUID = currentUUIDGenerator]
    /\ UNCHANGED <<currentRand, currentUUIDGenerator, fnVars, sesVars, cacheVars, migVars>>

\* the mock HTTP server starts, or buildDocs returns its error
NewTestHTTPServer ==
    /\ docs.pc = "NewTestHTTPServer"
    /\ \/ docs' = Defer([docs EXCEPT !.pc = "SetRand"], DeferServerClose)
       \/ docs' = Return(docs, "error starting mock HTTP server")
    /\ UNCHANGED <<currentRand, currentUUIDGenerator, fnVars, sesVars, cacheVars, migVars>>

\* the seeded random source is installed and its restoration deferred
SetRand ==
    /\ docs.pc = "SetRand"
    /\ currentRand' = NewSeededRand(docgenSeed)
    /\ docs' = Defer([docs EXCEPT !.pc = "SetUUIDGenerator"], DeferSetRand)
    /\ UNCHANGED <<currentUUIDGenerator, fnVars, sesVars, cacheVars, migVars>>

\* the seeded UUID generator is installed and its restoration deferred
SetUUIDGenerator ==
    /\ docs.pc = "SetUUIDGenerator"
    /\ currentUUIDGenerator' = NewSeededUUID4Generator(docgenSeed)
    /\ docs' = Defer([docs EXCEPT !.pc = "CreateTestSession", !.installed = TRUE],
                     DeferSetUUIDGenerator)
    /\ UNCHANGED <<currentRand, fnVars, sesVars, cacheVars, migVars>>

\* the example session is created, drawing from the installed generators,
\* or buildDocs returns the error
CreateTestSession ==
    /\ docs.pc = "CreateTestSession"
    /\ \E r \in 0..1, u \in 0..1 :
        /\ currentRand' = Drawn(currentRand, r)
        /\ currentUUIDGenerator' = Drawn(currentUUIDGenerator, u)
    /\ \/ docs' = [docs EXCEPT !.pc = "buildDocSet", !.ds = 1]
       \/ docs' = Return(docs, "error creating example session")
    /\ UNCHANGED <<fnVars, sesVars, cacheVars, migVars>>

\* one documentation set is built, or buildDocs returns its error
BuildDocSet ==
    /\ docs.pc = "buildDocSet"
    /\ \E r \in 0..1, u \in 0..1 :
        /\ currentRand' = Drawn(currentRand, r)
        /\ currentUUIDGenerator' = Drawn(currentUUIDGenerator, u)
    /\ \/ docs' = IF docs.ds < Len(docSets) THEN [docs EXCEPT !.ds = @ + 1]
                  ELSE [docs EXCEPT !.pc = "ParseFiles"]
       \/ docs' = Return(docs, "error building doc set")
    /\ UNCHANGED <<fnVars, sesVars, cacheVars, migVars>>

\* the template is read, or buildDocs returns the error
ParseFiles ==
    /\ docs.pc = "ParseFiles"
    /\ \/ docs' = [docs EXCEPT !.pc = "Execute"]
       \/ docs' = Return(docs, "Error reading template file")
    /\ UNCHANGED <<currentRand, currentUUIDGenerator, fnVars, sesVars, cacheVars, migVars>>

\* the template is executed, and buildDocs returns the output or the error
TemplateExecute ==
    /\ docs.pc = "Execute"
    /\ \/ docs' = Return(docs, "nil")
       \/ docs' = Return(docs, "Error executing template")
    /\ UNCHANGED <<currentRand, currentUUIDGenerator, fnVars, sesVars, cacheVars, migVars>>

\* the deferred calls run last in, first out; buildDocs has returned when
\* none is left
RunDeferred ==
    /\ docs.pc = "returning"
    /\ IF docs.defers = <<>>
       THEN /\ docs' = [docs EXCEPT !.pc = "returned"]
            /\ UNCHANGED <<currentRand, currentUUIDGenerator>>
       ELSE LET c == docs.defers[Len(docs.defers)] IN
            /\ docs' = [docs EXCEPT !.defers = SubSeq(@, 1, Len(@) - 1)]
            /\ currentRand' = IF c = DeferSetRand THEN DefaultRand ELSE currentRand
            /\ currentUUIDGenerator' =
                   IF c = DeferSetUUIDGenerator THEN DefaultUUIDGenerator
                   ELSE currentUUIDGenerator
    /\ UNCHANGED <<fnVars, sesVars, cacheVars, migVars>>

DocsInit ==
    /\ DocsIdle
    /\ MigUnused
    /\ call = NoCall
    /\ SesInit
    /\ contact = NoContact
    /\ nodeWait = [type |-> "msg", timeout |-> None, timeoutOn |-> None, run |-> 0]
    /\ CacheIdle

DocsNext ==
    \/ CallerSwap
    \/ BuildDocs
    \/ NewTestHTTPServer
    \/ SetRand
    \/ SetUUIDGenerator
    \/ CreateTestSession
    \/ BuildDocSet
    \/ ParseFiles
    \/ TemplateExecute
    \/ RunDeferred

SpecDocs == DocsInit /\ [][DocsNext]_vars

Init == SesInit /\ call = NoCall /\ CacheIdle /\ DocsIdle /\ MigUnused

Next ==
    \/ ExecuteAction
    \/ ApplyEvent
    \/ StartFlow
    \/ ExitRun
    \/ BeginMsgWait
    \/ BeginNothingWait
    \/ Resume
    \/ Tick

Spec == Init /\ [][Next]_vars

CallDateTimeFromParts ==
    /\ call.fn = "pending_datetime_from_parts"
    /\ call' = Called("datetime_from_parts", call.args, DateTimeFromParts(call.args))
    /\ UNCHANGED <<sesVars, cacheVars, docVars, migVars>>

CallLegacyAdd ==
    /\ call.fn = "pending_legacy_add"
    /\ call' = Called("legacy_add", call.args, LegacyAdd(call.args[1], call.args[2]))
    /\ UNCHANGED <<sesVars, cacheVars, docVars, migVars>>

CallDateTimeDiff ==
    /\ call.fn = "pending_datetime_diff"
    /\ call' = Called("datetime_diff", call.args, DateTimeDiff(call.args))
    /\ UNCHANGED <<sesVars, cacheVars, docVars, migVars>>

CallLeft ==
    /\ call.fn = "pending_cut"
    /\ call' = Called("left", call.args, Left(call.args[1], call.args[2]))
    /\ UNCHANGED <<sesVars, cacheVars, docVars, migVars>>

CallRight ==
    /\ call.fn = "pending_cut"
    /\ call' = Called("right", call.args, Right(call.args[1], call.args[2]))
    /\ UNCHANGED <<sesVars, cacheVars, docVars, migVars>>

(***************************************************************************)
(* Validation of set_contact_channel.  The action's channel reference is a *)
(* pointer: it is absent (nil) when the action's JSON has no channel.      *)
(***************************************************************************)
NoChannelReference == [present |-> FALSE, uuid |-> "none"]
ChannelReference(uuid) == [present |-> TRUE, uuid |-> uuid]
ChannelReferences == {NoChannelReference} \cup {ChannelReference(u) : u \in Channels}

\* what a Go function returned: its error ("" for nil)
Returned(err) == [k |-> "returned", v |-> err]

\* ChannelSet.FindByUUID: the channel, or "nil"
FindByUUID(channels, uuid) == IF uuid \in channels THEN uuid ELSE "nil"

\* sessionAssets.GetChannel, given what cache.GetAsset returns for the
\* channel set and the channels of that set: (channel, error)
GetChannel(raw, channels, uuid) ==
    LET set == GetChannelSet(raw)
        channel == FindByUUID(channels, uuid)
    IN  IF set.err # NoError THEN [channel |-> "nil", err |-> set.err]
        ELSE IF channel = "nil"
        THEN [channel |-> "nil", err |-> "no such channel with uuid"]
        ELSE [channel |-> channel, err |-> NoError]

\* SetContactChannelAction.Validate: a.Channel.UUID is read before GetChannel
\* is called, and reading it through a nil pointer panics
Validate(a, raw, channels) ==
    IF ~a.present THEN Panic("invalid memory address or nil pointer dereference")
    ELSE Returned(GetChannel(raw, channels, a.uuid).err)

\* what cache.GetAsset may return for the channel set, and the channels the
\* set may hold
ChannelSetResponses == Responses(CacheKey(assetTypeChannelSet, 0))
ChannelSets == SUBSET Channels

CallValidate ==
    /\ call.fn = "pending_validate"
    /\ call' = Called("validate", call.args,
                      Validate(call.args[1], call.args[2], call.args[3]))
    /\ UNCHANGED <<sesVars, cacheVars, docVars, migVars>>

\* SpecFn leaves the session where one fixed initial state puts it
FnInit ==
    /\ \/ call \in {Pending(args) : args \in ArgLists}
       \/ call \in {PendingReference(extraAs, keys) :
                       extraAs \in ExtraVarsMapping, keys \in References \cup ContactReferences}
       \/ call \in {PendingNumbers("pending_rand_between", <<XNumber(min), XNumber(max), r>>) :
                       min \in RangeNumbers, max \in RangeNumbers, r \in RandDecimals}
       \/ call \in {PendingNumbers("pending_round", <<XNumber(n), places>>) :
                       n \in RoundNumbers, places \in RoundPlaces}
       \/ \E text \in TextsOf({"a", "b", " "}), start \in Indexes :
              \/ call = PendingText("pending_word_slice", <<text, start>>)
              \/ \E end \in Indexes :
                     call = PendingText("pending_word_slice", <<text, start, end>>)
       \/ \E text \in TextsOf({"a", " ", ","}), offset \in Indexes,
             delimiter \in Delimiters :
              call = PendingText("pending_field", <<text, offset, delimiter>>)
       \/ \E i \in 1..3, m \in ErrorMessages :
              \/ call = PendingText("pending_word_slice",
                                    [WithoutError EXCEPT ![i] = XError(m)])
              \/ call = PendingText("pending_field",
                                    [<<WithoutError[1], WithoutError[2], XText(<<" ">>)>>
                                        EXCEPT ![i] = XError(m)])
       \/ call \in {PendingText("pending_read_chars", <<text>>) : text \in ReadTexts}
       \/ call \in {PendingNumbers("pending_datetime_from_parts", <<year, month, day>>) :
                       year \in PartYears, month \in PartMonths, day \in PartDays}
       \/ \E i \in 1..Len(AddKinds), j \in 1..Len(AddKinds) :
              /\ {i, j} \notin {{2, 5}, {5}}
              /\ \E arg1 \in AddKinds[i], arg2 \in AddKinds[j] :
                     call = PendingNumbers("pending_legacy_add", <<arg1, arg2>>)
       \/ \E date1 \in DiffDates, date2 \in DiffDates, unit \in DiffUnits :
              \/ call = PendingText("pending_datetime_diff", <<date1, date2, unit>>)
              \/ call = PendingText("pending_datetime_diff", <<date1, date2>>)
              \/ call = PendingText("pending_datetime_diff", <<date1, date2, unit, unit>>)
       \/ call \in {PendingText("pending_cut", <<text, count>>) :
                       text \in CutTexts, count \in CutCounts}
       \/ call \in {PendingText("pending_validate", <<a, raw, channels>>) :
                       a \in ChannelReferences, raw \in ChannelSetResponses,
                       channels \in ChannelSets}
       \/ \E date1 \in DiffDates, date2 \in FarDates, unit \in DiffUnits \ {XText(<<"s">>)} :
              \/ call = PendingText("pending_datetime_diff", <<date1, date2, unit>>)
              \/ call = PendingText("pending_datetime_diff", <<date2, date1, unit>>)
    /\ SesInit
    /\ contact = NoContact
    /\ nodeWait = [type |-> "msg", timeout |-> None, timeoutOn |-> None, run |-> 0]
    /\ CacheIdle
    /\ DocsIdle
    /\ MigUnused

FnNext ==
    \/ CallArray
    \/ CallAnd
    \/ CallOr
    \/ CallIf
    \/ CallDefault
    \/ CallMigrate
    \/ CallRandBetween
    \/ CallRoundUp
    \/ CallRoundDown
    \/ CallWordSlice
    \/ CallField
    \/ CallReadChars
    \/ CallDateTimeFromParts
    \/ CallLegacyAdd
    \/ CallDateTimeDiff
    \/ CallLeft
    \/ CallRight
    \/ CallValidate

SpecFn == FnInit /\ [][FnNext]_vars

(***************************************************************************)
(* SpecCache: workers call the session getters concurrently.               *)
(***************************************************************************)
\* a getter finds its key in the cache and returns at once
LookupHit ==
    \E g \in Getters :
        /\ \E w \in Workers : ~lookups[w].busy
        /\ g.key \in CachedKeys(cache)
        /\ LET raw == Fetched(cache[IndexOf(cache, g.key)].asset) IN
           cop' = [name |-> "hit", getter |-> g.name, key |-> g.key, raw |-> raw,
                   ret |-> GetterReturn(g, raw), served |-> 1, evicted |-> 0]
        /\ cache' = Touch(cache, g.key)
        /\ UNCHANGED <<fetching, lookups, sesVars, call, docVars, migVars>>

\* a getter misses: it joins the fetch under way for its key, or starts one
\* (callers are interchangeable: the lowest idle one makes the call)
LookupMiss ==
    \E w \in Workers, g \in Getters :
        /\ ~lookups[w].busy
        /\ \A v \in Workers : v < w => lookups[v].busy
        /\ g.key \notin CachedKeys(cache)
        /\ lookups' = [lookups EXCEPT ![w] = Blocked(g)]
        /\ fetching' = IF SharesFetch(fetching[g.key]) THEN fetching
                       ELSE [fetching EXCEPT ![g.key] = @ + 1]
        /\ cop' = [NoCacheOp EXCEPT !.name = "miss", !.getter = g.name, !.key = g.key]
        /\ UNCHANGED <<cache, sesVars, call, docVars, migVars>>

\* the server answers a fetch: a fetched asset enters the cache, and every
\* lookup blocked on the key returns with the answer
FetchReturns ==
    \E k \in CacheKeys :
        /\ fetching[k] > 0
        /\ \E raw \in Responses(k) :
            /\ cache' = IF raw.err = NoError THEN Insert(cache, k, raw.asset) ELSE cache
            /\ \E g \in Getters :
                /\ g.key = k
                /\ cop' = [name |-> "fetched", getter |-> g.name, key |-> k, raw |-> raw,
                           ret |-> GetterReturn(g, raw),
                           served |-> Cardinality(Waiters(k)),
                           evicted |-> IF raw.err = NoError
                                       THEN Len(cache) + 1 - Len(Insert(cache, k, raw.asset))
                                       ELSE 0]
        /\ fetching' = [fetching EXCEPT ![k] = @ - 1]
        /\ lookups' = [w \in Workers |-> IF w \in Waiters(k) THEN Idle ELSE lookups[w]]
        /\ UNCHANGED <<sesVars, call, docVars, migVars>>

CacheInit ==
    /\ CacheIdle
    /\ DocsIdle
    /\ MigUnused
    /\ call = NoCall
    /\ SesInit
    /\ contact = NoContact
    /\ nodeWait = [type |-> "msg", timeout |-> None, timeoutOn |-> None, run |-> 0]

CacheNext ==
    \/ LookupHit
    \/ LookupMiss
    \/ FetchReturns

SpecCache == CacheInit /\ [][CacheNext]_vars

(***************************************************************************)
(* SpecMig: references migrated one after the other, key by key, over the  *)
(* one shared mapper tree.                                                 *)
(***************************************************************************)
\* a migration starts: the root mapper is built for the flow's extra mode
MigrateStart ==
    /\ walk.state \in {"idle", "done"}
    /\ \E extraAs \in ExtraVarsMapping :
           LET root == newMigrationVarMapperOf(migrationVars, extraAs) IN
           /\ walk' = [walk EXCEPT !.state = "resolving", !.extraAs = extraAs,
                                   !.keys = <<>>, !.cursor = root.ret,
                                   !.result = Unresolved,
                                   !.earlier = walk.state = "done"]
           /\ migrationVars' = root.vars
    /\ UNCHANGED <<mappers, fnVars, sesVars, cacheVars, docVars>>

\* the next key of the reference is resolved; a key under a plain string
\* resolves to nothing
MigrateResolve ==
    /\ walk.state = "resolving"
    /\ Len(walk.keys) <= MaxKeys
    /\ \E key \in IF walk.keys = <<>> THEN TopKeys ELSE WalkKeys :
           LET r == IF IsResolvable(walk.cursor) THEN ResolveOf(mappers, walk.cursor, key)
                    ELSE Returns(Unresolved, mappers)
           IN  /\ walk' = [walk EXCEPT !.cursor = r.ret, !.keys = Append(walk.keys, key)]
               /\ mappers' = r.mappers
    /\ UNCHANGED <<migrationVars, fnVars, sesVars, cacheVars, docVars>>

\* the reference ends: a mapper is written as its String
MigrateString ==
    /\ walk.state = "resolving"
    /\ walk.keys # <<>>
    /\ LET r == IF IsResolvable(walk.cursor) THEN StringOf(mappers, walk.cursor)
                ELSE Returns(walk.cursor.s, mappers)
       IN  /\ walk' = [walk EXCEPT !.state = "done",
                                   !.result = IF walk.cursor = Unresolved THEN Unresolved
                                              ELSE AsString(r.ret)]
           /\ mappers' = r.mappers
    /\ UNCHANGED <<migrationVars, fnVars, sesVars, cacheVars, docVars>>

MigInit ==
    /\ MigIdle
    /\ call = NoCall
    /\ SesInit
    /\ contact = NoContact
    /\ nodeWait = [type |-> "msg", timeout |-> None, timeoutOn |-> None, run |-> 0]
    /\ CacheIdle
    /\ DocsIdle

MigNext ==
    \/ MigrateStart
    \/ MigrateResolve
    \/ MigrateString

SpecMig == MigInit /\ [][MigNext]_vars

(***************************************************************************)
(* Claims about the built-in functions (checked under SpecFn).             *)
(***************************************************************************)
ErrorArgs(args) == {i \in 1..Len(args) : IsXError(args[i])}

Least(S) == CHOOSE i \in S : \A j \in S : i <= j

\* the arguments at which and (or) stops: an Error or a falsy (truthy) value
AndStops(args) == {i \in 1..Len(args) : IsXError(args[i]) \/ ~Truthy(args[i])}
OrStops(args) == {i \in 1..Len(args) : IsXError(args[i]) \/ Truthy(args[i])}

FnNames == {"array", "and", "or", "if", "default"}

HasFatalError == \E i \in 1..Len(log) : log[i].type = TypeFatalError

WaitingRuns == {i \in 1..Len(runs) : runs[i].status = "waiting"}

\* C2: executing set_contact_channel leaves the run stack and the contact
\* (with its preferred channel) as they were and only appends to the event
\* log; with a contact present the appended event is contact_channel_changed.
C2_ExecuteOnlyAppends ==
    [][op'.name = "execute" =>
          /\ runs' = runs
          /\ contact' = contact
          /\ Len(log') > Len(log)
          /\ SubSeq(log', 1, Len(log)) = log
          /\ contact.present => log'[Len(log')].type = TypeContactChannelChanged]_vars

\* Execute has returned after emitting a change to a channel the contact
\* does not have
C2_Witness ==
    /\ op.name = "execute"
    /\ contact.present
    /\ Len(log) > 0
    /\ log[Len(log)].type = TypeContactChannelChanged
    /\ log[Len(log)].channel # contact.channel

\* C3: once a fatal_error event is in the log of a resume, only its
\* application follows: no action, node, wait or resume is executed, the
\* log ends with the fatal_error event, the session is errored once the
\* event is applied, and an errored session stays as it is.
C3_FatalErrorTerminal ==
    /\ [](HasFatalError =>
            /\ log[Len(log)].type = TypeFatalError
            /\ applied = Len(log) => status = "errored")
    /\ [][HasFatalError => (op'.name \in {"apply", "tick"} /\ log' = log)]_vars
    /\ [][status = "errored" =>
            (status' = "errored" /\ runs' = runs /\ contact' = contact)]_vars

\* set_contact_channel ran without a contact and the session is errored
C3_Witness ==
    /\ status = "errored"
    /\ ~contact.present
    /\ op.name = "apply"
    /\ log[Len(log)].type = TypeFatalError
    /\ Top(runs).status = "errored"

\* the caller events a wait of type wtype accepts
Accepted(wtype, evs) ==
    \/ wtype = "nothing"
    \/ \E i \in 1..Len(evs) : evs[i].type \in {TypeMsgReceived, TypeWaitTimedOut}

\* C4: a waiting session stops waiting, or loses its wait, only in a resume
\* whose caller events its wait accepts; any other step, and a resume with
\* no accepted event, leaves it waiting with the same wait.
C4_LeavesWaitingOnlyByAcceptedResume ==
    [][status = "waiting" =>
          \/ status' = "waiting" /\ wait' = wait
          \/ op'.name = "resume" /\ Accepted(wait.type, op'.events)]_vars

\* a resume without an accepted event, after timeout_on has passed, left the
\* session waiting
C4_Witness ==
    /\ op.name = "resume"
    /\ Len(op.events) > 0
    /\ status = "waiting"
    /\ wait.type = "msg"
    /\ wait.timeoutOn # None
    /\ now >= wait.timeoutOn

\* C5: at most one run waits; a wait is attached exactly when the session is
\* waiting, and then it belongs to the innermost run, which is the waiting one.
C5_OneWaitOnInnermostRun ==
    /\ (status = "waiting") <=> (wait # NoWait)
    /\ Cardinality(WaitingRuns) <= 1
    /\ wait # NoWait => WaitingRuns = {Len(runs)} /\ wait.run = Len(runs)
    /\ wait = NoWait => WaitingRuns = {}

\* a child run waits while its parent is on the stack
C5_Witness ==
    /\ status = "waiting"
    /\ Len(runs) = 2
    /\ wait.run = 2
    /\ runs[1].status = "active"

\* C6: the timeout part of a msg wait's resume predicate is true exactly
\* when some caller event is a wait_timed_out, whatever timeout and
\* timeout_on are and whatever the time is.
C6_TimeoutResumeDependsOnEventsOnly ==
    (op.name = "resume" /\ op.wtype = "msg") =>
        (op.res <=> \E i \in 1..Len(op.events) : op.events[i].type = TypeWaitTimedOut)

\* a resume with no caller events after timeout_on has passed: the timeout
\* part is false
C6_Witness ==
    /\ op.name = "resume"
    /\ op.wtype = "msg"
    /\ op.events = <<>>
    /\ ~op.res
    /\ wait.timeoutOn # None
    /\ now > wait.timeoutOn

\* C7 as stated: after Begin on a msg wait, timeout_on is present exactly
\* when timeout is, and then equals the instant of Begin plus timeout.
C7_TimeoutOnSetByBegin ==
    (op.name = "begin" /\ wait.type = "msg") =>
        /\ (wait.timeoutOn # None) <=> (wait.timeout # None)
        /\ wait.timeout # None => wait.timeoutOn = now + wait.timeout

(***************************************************************************)
(* Claims about the asset layer (checked under SpecCache).                 *)
(***************************************************************************)
\* C8: at any time the server is serving at most one fetch per cache key;
\* lookups are blocked on a key exactly while that one fetch is under way,
\* and its answer returns every one of them.
C8_SingleFlight ==
    /\ [](\A k \in CacheKeys :
            /\ fetching[k] <= 1
            /\ (Waiters(k) # {}) <=> (fetching[k] = 1))
    /\ [][cop'.name = "fetched" =>
            /\ cop'.served = Cardinality(Waiters(cop'.key))
            /\ \A w \in Waiters(cop'.key) : ~lookups'[w].busy]_vars

\* one fetch has answered two lookups
C8_Witness ==
    /\ cop.name = "fetched"
    /\ cop.served >= 2
    /\ \A w \in Workers : lookups[w].key # cop.key

ExpectedType(getter) ==
    CASE getter = "GetLocationHierarchy" -> "location_hierarchy"
      [] getter = "GetChannelSet" -> "channel_set"
      [] getter = "GetFieldSet" -> "field_set"
      [] getter = "GetFlow" -> "flow"
      [] getter = "GetGroupSet" -> "group_set"
      [] getter = "GetLabelSet" -> "label_set"

\* C10: a getter that has returned hands out the cache's error and no asset
\* when the cache failed, an error and no asset when the cached value is not
\* of its type, and an asset only when the cached value is of its type.
C10_GetterTypeSafe ==
    cop.name \in {"hit", "fetched"} =>
        /\ cop.raw.err # NoError => cop.ret = Failed(cop.raw.err)
        /\ (cop.raw.err = NoError /\ cop.raw.asset # ExpectedType(cop.getter)) =>
              (cop.ret.err # NoError /\ cop.ret.asset = NoAsset)
        /\ cop.ret.asset # NoAsset =>
              /\ cop.ret.err = NoError
              /\ cop.ret.asset = ExpectedType(cop.getter)
              /\ cop.raw = Fetched(ExpectedType(cop.getter))

\* GetFlow found an asset of another type in the cache and returned an error
C10_Witness ==
    /\ cop.name = "hit"
    /\ cop.getter = "GetFlow"
    /\ cop.raw.err = NoError
    /\ cop.raw.asset # "flow"
    /\ cop.ret = Failed(WrongTypeError)

(***************************************************************************)
(* Claims about the legacy variable mappers (checked under SpecFn).        *)
(***************************************************************************)
\* the keys of a path in order, joined by dots
RECURSIVE Dotted(_)
Dotted(p) ==
    IF p = <<>> THEN <<>>
    ELSE IF Len(p) = 1 THEN <<p[1]>>
    ELSE <<p[1], Dot>> \o Dotted(Tail(p))

\* what a path under @extra is expected to migrate to in each mode
ExtraExpected(extraAs, p) ==
    CASE extraAs = ExtraAsWebhookJSON -> <<"run", Dot, "webhook", Dot, "json", Dot>> \o Dotted(p)
      [] extraAs = ExtraAsTriggerParams -> <<"trigger", Dot, "params", Dot>> \o Dotted(p)
      [] extraAs = ExtraAsFunction ->
            <<"if(is_error(run", Dot, "webhook", Dot, "json", Dot>> \o Dotted(p)
            \o <<"), trigger", Dot, "params", Dot>> \o Dotted(p)
            \o <<", run", Dot, "webhook", Dot, "json", Dot>> \o Dotted(p) \o <<")">>

Migrated == call.fn = "migrate"
MigratedMode == call.args[1]
MigratedKeys == call.args[2]

\* C12: a reference @extra.p with a non-empty key path p whose first key is
\* not flow migrates to run.webhook.json.p in mode webhook_json, to
\* trigger.params.p in mode trigger_params, and to
\* if(is_error(run.webhook.json.p), trigger.params.p, run.webhook.json.p) in
\* mode function, p keeping every key in order joined by dots.
C12_ExtraFollowsMode ==
    (/\ Migrated
     /\ MigratedKeys[1] = "extra"
     /\ Len(MigratedKeys) >= 2
     /\ MigratedKeys[2] # "flow")
    => call.result = AsString(ExtraExpected(MigratedMode, Tail(MigratedKeys)))

\* a three-key path under @extra, one key in mixed case, migrated in mode function
C12_Witness ==
    /\ Migrated
    /\ MigratedMode = ExtraAsFunction
    /\ MigratedKeys = <<"extra", "coupon", "Age", "text">>
    /\ call.result.s[1] = "if(is_error(run"
    /\ SubSeq(call.result.s, 7, 11) = <<"coupon", Dot, "Age", Dot, "text">>
    /\ SubSeq(call.result.s, 12, 15) = <<"), trigger", Dot, "params", Dot>>

\* the sub-keys of a parent result that are renamed
ResultSubKey(k) ==
    CASE k = "category" -> "category_localized"
      [] k = "text" -> "input"
      [] k = "time" -> "created_on"
      [] OTHER -> ToLower(k)

\* C13: in every extra mode @extra.flow.<name> migrates to
\* parent.results.<name> (the name read case-insensitively, as every key of
\* a variable mapper is), its sub-keys category, text and time to
\* category_localized, input and created_on; a key flow that is not the
\* first key under @extra stays part of the extra path.
C13_ExtraFlowReroutes ==
    (Migrated /\ MigratedKeys[1] = "extra" /\ Len(MigratedKeys) >= 3) =>
        LET keys == MigratedKeys IN
        IF keys[2] = "flow"
        THEN /\ Len(keys) = 3 =>
                    call.result = AsString(<<"parent", Dot, "results", Dot, ToLower(keys[3])>>)
             /\ Len(keys) = 4 =>
                    call.result = AsString(<<"parent", Dot, "results", Dot, ToLower(keys[3]),
                                            Dot, ResultSubKey(keys[4])>>)
        ELSE (\E i \in 3..Len(keys) : keys[i] = "flow") =>
                    call.result = AsString(ExtraExpected(MigratedMode, Tail(keys)))

\* @extra.flow.coupon.time was migrated in mode trigger_params
C13_Witness ==
    /\ Migrated
    /\ MigratedMode = ExtraAsTriggerParams
    /\ MigratedKeys = <<"extra", "flow", "coupon", "time">>
    /\ call.result = AsString(<<"parent", Dot, "results", Dot, "coupon", Dot, "created_on">>)

\* C14: in every extra mode the fixed sub-keys of the root migration mapper
\* are exactly the eight names of ContextTopLevels: channel, child, contact,
\* date, extra, flow, parent, step.
C14_TopLevelsClosed ==
    /\ Len(ContextTopLevels) = 8
    /\ {ContextTopLevels[i] : i \in DOMAIN ContextTopLevels} =
           {"channel", "child", "contact", "date", "extra", "flow", "parent", "step"}
    /\ \A extraAs \in ExtraVarsMapping :
           DOMAIN newMigrationVarMapper(extraAs).baseVars =
               {ContextTopLevels[i] : i \in DOMAIN ContextTopLevels}
    /\ Migrated =>
           (MigratedKeys[1] \in DOMAIN newMigrationVarMapper(MigratedMode).baseVars
            <=> \E i \in DOMAIN ContextTopLevels : ContextTopLevels[i] = MigratedKeys[1])

\* a reference to each kind of top-level name was migrated: here @extra in
\* mode function, resolved by the root mapper's fixed sub-key
C14_Witness ==
    /\ Migrated
    /\ MigratedMode = ExtraAsFunction
    /\ MigratedKeys = <<"extra", "coupon">>
    /\ "extra" \in DOMAIN newMigrationVarMapper(MigratedMode).baseVars
    /\ call.result = AsString(ExtraExpected(ExtraAsFunction, <<"coupon">>))

\* the pieces of a migrated expression that name a contact
ContactPieces == {"contact", "join(contact", "format_urn(contact"}

\* the piece at position i of expression s is the contact of owner: it is
\* the path segment contact right after the segment owner
OwnedBy(s, i, owner) ==
    /\ s[i] = "contact"
    /\ i > 2
    /\ s[i - 1] = Dot
    /\ s[i - 2] = owner

\* C28: migration keeps the owner of a contact reference: for every legacy
\* path that starts with parent.contact or child.contact and goes on with a
\* recognized key (name, uuid, tel_e164, groups, a URN scheme alone or
\* followed by display, scheme, path or urn) or a field key, every contact
\* reference of the migrated expression is prefixed with parent.
\* (respectively child.), never the contact of the current run.
C28_MigrationKeepsContactOwner ==
    (/\ Migrated
     /\ Len(MigratedKeys) >= 3
     /\ MigratedKeys[1] \in {"parent", "child"}
     /\ MigratedKeys[2] = "contact")
    => /\ call.result.kind = "string"
       /\ \E i \in DOMAIN call.result.s : call.result.s[i] \in ContactPieces
       /\ \A i \in DOMAIN call.result.s :
              call.result.s[i] \in ContactPieces =>
                  OwnedBy(call.result.s, i, MigratedKeys[1])

\* a piece that cannot follow a dot: it starts with a character that is not
\* part of a path segment
ClosingPieces == {Dot, ")", "), trigger", ", run"}

\* no segment of the dotted paths of s is empty
NoEmptySegment(s) ==
    \A i \in DOMAIN s :
        s[i] = Dot => /\ i > 1
                      /\ i < Len(s)
                      /\ s[i - 1] # Dot
                      /\ s[i + 1] \notin ClosingPieces

\* C29: every migrated reference is well formed: in every extra mode, for
\* every top-level identifier of the closed set alone and followed by any
\* sequence of keys, the string the mapper produces is not empty and none
\* of its dotted paths has an empty segment (no leading, trailing or
\* doubled dot).
C29_MigratedReferenceWellFormed ==
    (/\ Migrated
     /\ \E i \in DOMAIN ContextTopLevels : ContextTopLevels[i] = MigratedKeys[1]
     /\ call.result.kind = "string")
    => /\ call.result.s # <<>>
       /\ NoEmptySegment(call.result.s)

(***************************************************************************)
(* Claims about the number functions (checked under SpecFn).               *)
(***************************************************************************)
IsInteger(d) == DecimalEqual(DecimalFloor(d), d)

\* C15: for every pair of numbers min <= max, integer or fractional, and
\* every value of the random source in [0, 1), rand_between(min, max) is an
\* integer r with min <= r <= max.
C15_RandBetweenInRange ==
    (call.fn = "rand_between" /\ DecimalCmp(call.args[1].v, call.args[2].v) <= 0) =>
        /\ IsInteger(call.result.v)
        /\ DecimalCmp(call.args[1].v, call.result.v) <= 0
        /\ DecimalCmp(call.result.v, call.args[2].v) <= 0

\* d is a multiple of 10^(-places)
IsMultiple(d, places) ==
    LET e == IF d.exp < -places THEN d.exp ELSE -places IN
    rescale(d, e).value % Pow10(-places - e) = 0

\* C16: for every decimal n and every integer places, round_up(n, places)
\* is the smallest multiple of 10^(-places) that is >= n and
\* round_down(n, places) the largest one that is <= n; an n that is such a
\* multiple is returned unchanged.
C16_RoundUpDownAreCeilingAndFloor ==
    call.fn \in {"round_up", "round_down"} =>
        LET n == call.args[1].v
            places == call.args[2]
            r == call.result.v
            unit == Decimal(1, -places)
        IN  /\ IsMultiple(r, places)
            /\ call.fn = "round_up" =>
                   DecimalCmp(r, n) >= 0 /\ DecimalCmp(DecimalSub(r, unit), n) < 0
            /\ call.fn = "round_down" =>
                   DecimalCmp(r, n) <= 0 /\ DecimalCmp(DecimalAdd(r, unit), n) > 0
            /\ IsMultiple(n, places) => call.result = call.args[1]

\* round_up(-0.12, 1) was called: the ceiling of a negative number with
\* more digits than the precision keeps
C16_Witness ==
    /\ call.fn = "round_up"
    /\ call.args = <<XNumber(Decimal(-12, -2)), 1>>
    /\ DecimalEqual(call.result.v, Decimal(-1, -1))

\* C17: default(test, fallback) is fallback exactly when test is an Error,
\* nil, empty text or an empty collection, and test itself in every other
\* case; an Error test is never the result.
C17_DefaultReplacesEmptyAndError ==
    (call.fn = "default") =>
        LET test == call.args[1]
            fallback == call.args[2]
            replaced == \/ test.k = "error"
                        \/ test.k = "nil"
                        \/ test = XText("")
                        \/ test = XArray("[]")
        IN  /\ replaced => call.result = fallback
            /\ ~replaced => call.result = test
            /\ test.k = "error" /\ fallback.k # "error" => call.result.k # "error"

\* default was called with an Error test and a text fallback
C17_Witness ==
    /\ call.fn = "default"
    /\ call.args = <<XError("e1"), XText("a")>>
    /\ call.result = XText("a")

(***************************************************************************)
(* Claims about the text functions (checked under SpecFn).                 *)
(***************************************************************************)
IsIndex(x) == x.k = "number"

\* the same value: the same variant with the same content
Same(x, y) == x.k = y.k /\ x.v = y.v

\* C18: word_slice(text, start, end) with start >= 0 and an explicitly
\* given end >= 0 is an Error or the words with index i, start <= i < end,
\* joined by single spaces; only a negative or omitted end gives all words
\* from start; a negative start is an Error, and a start at or beyond the
\* word count gives the empty text.
C18_WordSliceStopsAtEnd ==
    (call.fn = "word_slice" /\ call.args[1].k = "text" /\ IsIndex(call.args[2])
     /\ (Len(call.args) = 3 => IsIndex(call.args[3]))) =>
        LET words == TokenizeString(call.args[1].v)
            start == ToInteger(call.args[2]).int
            given == Len(call.args) = 3
            end == IF given THEN ToInteger(call.args[3]).int ELSE -1
            upTo(e) == XText(StringsJoin(SubSeq(words, start + 1,
                                                IF e < Len(words) THEN e ELSE Len(words)),
                                         <<" ">>))
        IN  /\ start < 0 => call.result.k = "error"
            /\ (start >= 0 /\ given /\ end >= 0) =>
                   call.result.k = "error" \/ Same(call.result, upTo(end))
            /\ (start >= 0 /\ end < 0) => Same(call.result, upTo(Len(words)))
            /\ (start >= Len(words) /\ call.result.k # "error") => Same(call.result, XTextEmpty)

\* the fields field counts: the pieces between delimiters, the empty ones
\* dropped for the single-space delimiter
CountedFields(text, delimiter) ==
    IF delimiter = <<" ">> THEN NonEmptyFields(Split(text, delimiter))
    ELSE Split(text, delimiter)

\* C19: field(text, offset, delimiter) returns a Text or an Error for every
\* text, offset and delimiter, the single space included; a negative offset
\* is an Error, and an offset at or beyond the number of fields - counted
\* after empty fields are dropped for the space delimiter - gives the empty
\* text.
C19_FieldNeverAborts ==
    call.fn = "field" =>
        /\ call.result.k \in {"text", "error"}
        /\ (call.args[1].k = "text" /\ IsIndex(call.args[2]) /\ call.args[3].k = "text") =>
               LET offset == ToInteger(call.args[2]).int IN
               /\ offset < 0 => call.result.k = "error"
               /\ (offset >= Len(CountedFields(call.args[1].v, call.args[3].v))) =>
                      Same(call.result, XTextEmpty)

\* the characters of a text in groups of size, the characters of a group
\* joined by a space and the groups by " , "
RECURSIVE InGroups(_, _)
InGroups(chars, size) ==
    IF Len(chars) <= size THEN StringsJoin(chars, <<" ">>)
    ELSE StringsJoin(SubSeq(chars, 1, size), <<" ">>) \o <<" ", ",", " ">>
         \o InGroups(SubSeq(chars, size + 1, Len(chars)), size)

\* C20: read_chars, after stripping leading '+' characters, emits a text
\* whose character count is a multiple of 3 in groups of 3 characters,
\* otherwise one whose count is a multiple of 4 in groups of 4, otherwise
\* one character per group; the empty text gives the empty text.
C20_ReadCharsGroupsByLength ==
    call.fn = "read_chars" =>
        LET chars == Runes(TrimLeft(call.args[1].v, "+"))
            size == IF Len(chars) % 3 = 0 THEN 3 ELSE IF Len(chars) % 4 = 0 THEN 4 ELSE 1
        IN  Same(call.result, XText(InGroups(chars, size)))

\* the bytes of a text of read_chars without its separators: the " , "
\* between groups and the spaces inside a group (no input text has either)
RECURSIVE RemoveSeparators(_)
RemoveSeparators(s) ==
    IF s = <<>> THEN <<>>
    ELSE IF Head(s) \in {" ", ","} THEN RemoveSeparators(Tail(s))
    ELSE <<Head(s)>> \o RemoveSeparators(Tail(s))

\* C30: read_chars loses no character: for every text, texts with
\* multi-byte characters included, the output without its separators is
\* exactly the input with its leading '+' characters stripped, the
\* characters in their original order.
C30_ReadCharsLosesNoCharacter ==
    call.fn = "read_chars" =>
        /\ call.result.k = "text"
        /\ RemoveSeparators(call.result.v) = TrimLeft(call.args[1].v, "+")

(***************************************************************************)
(* Claims about the date functions                                         *)
(***************************************************************************)
\* the month after and the month before a month of a year
NextMonth(year, month) ==
    IF month = 12 THEN [year |-> year + 1, month |-> 1] ELSE [year |-> year, month |-> month + 1]
PrevMonth(year, month) ==
    IF month = 1 THEN [year |-> year - 1, month |-> 12] ELSE [year |-> year, month |-> month - 1]

\* C21: datetime_from_parts on integers yields an Error exactly when the
\* month is outside 1..12; otherwise the result is midnight in the
\* environment timezone of the given day when the month has that day, and
\* else of the day that many days into the next month (past the end) or
\* that many days back from the end of the previous month (below 1):
\* 2017, 2, 31 gives 3 March 2017.
C21_FromPartsChecksOnlyMonth ==
    call.fn = "datetime_from_parts" =>
        LET year == ToInteger(call.args[1]).int
            month == ToInteger(call.args[2]).int
            day == ToInteger(call.args[3]).int
            r == call.result
        IN  /\ IsXError(r) <=> (month < 1 \/ month > 12)
            /\ ~IsXError(r) =>
                 /\ r.k = "datetime"
                 /\ r.v.secs = 0
                 /\ r.v.loc = EnvTimezone
                 /\ day \in 1..daysIn(month, year) =>
                      /\ Year(r.v) = year
                      /\ Month(r.v) = month
                      /\ Day(r.v) = day
                 /\ day > daysIn(month, year) =>
                      /\ Year(r.v) = NextMonth(year, month).year
                      /\ Month(r.v) = NextMonth(year, month).month
                      /\ Day(r.v) = day - daysIn(month, year)
                 /\ day < 1 =>
                      /\ Year(r.v) = PrevMonth(year, month).year
                      /\ Month(r.v) = PrevMonth(year, month).month
                      /\ Day(r.v) = day + daysIn(PrevMonth(year, month).month,
                                                 PrevMonth(year, month).year)
                 /\ (year = 2017 /\ month = 2 /\ day = 31) =>
                      (Year(r.v) = 2017 /\ Month(r.v) = 3 /\ Day(r.v) = 3)

\* datetime_from_parts(2017, 2, 31) returned 3 March 2017
C21_Witness ==
    /\ call.fn = "datetime_from_parts"
    /\ call.args = <<XNumber(Decimal(2017, 0)), XNumber(Decimal(2, 0)), XNumber(Decimal(31, 0))>>
    /\ call.result.k = "datetime"
    /\ Year(call.result.v) = 2017
    /\ Month(call.result.v) = 3
    /\ Day(call.result.v) = 3
    /\ call.result.v.secs = 0

IsDate(x) == x.k = "datetime"
IsNumber(x) == x.k = "number"

\* the integer part of a decimal lies within [-2^31, 2^31 - 1]
IntegerPartIn32Bits(d) ==
    \/ d.value = 0
    \/ d.exp <= 0
    \/ d.exp <= 9 /\ (IF d.value < 0 THEN -d.value ELSE d.value) <= 2147483647 \div Pow10(d.exp)

\* the integer part of a decimal whose integer part is within 32 bits
IntegerPart(d) ==
    IF d.value = 0 THEN 0
    ELSE IF d.exp <= 0 THEN Quo(d.value, Pow10(-d.exp))
    ELSE d.value * Pow10(d.exp)

\* what the claim expects of legacy_add(date, number)
MovedByDays(date, number, r) ==
    IF IntegerPartIn32Bits(number.v)
    THEN /\ IsDate(r)
         /\ r.v = Time(date.v.days + IntegerPart(number.v), date.v.secs, date.v.loc)
    ELSE IsXError(r)

\* C22: legacy_add gives an Error for two dates; for a date and a number,
\* in either order, the date moved by the number's integer part in days,
\* and an Error when that integer part is outside [-2^31, 2^31 - 1]; for
\* two numbers their sum; for any other combination an Error; and the same
\* result (the same value, or an Error both ways) with the arguments swapped.
C22_LegacyAddDispatches ==
    call.fn = "legacy_add" =>
        LET arg1 == call.args[1]
            arg2 == call.args[2]
            r == call.result
            swapped == LegacyAdd(arg2, arg1)
        IN  /\ (IsDate(arg1) /\ IsDate(arg2)) => IsXError(r)
            /\ (IsDate(arg1) /\ IsNumber(arg2)) => MovedByDays(arg1, arg2, r)
            /\ (IsNumber(arg1) /\ IsDate(arg2)) => MovedByDays(arg2, arg1, r)
            /\ (IsNumber(arg1) /\ IsNumber(arg2)) =>
                   /\ IsNumber(r)
                   /\ DecimalEqual(DecimalSub(r.v, arg1.v), arg2.v)
            /\ (~(IsDate(arg1) \/ IsNumber(arg1)) \/ ~(IsDate(arg2) \/ IsNumber(arg2))) =>
                   IsXError(r)
            /\ \/ IsXError(r) /\ IsXError(swapped)
               \/ r.k = swapped.k /\ r.v = swapped.v

\* the time from b to a in whole units of unit seconds, the fraction dropped
\* toward zero
Elapsed(a, b, unit) ==
    LET dd == a.days - b.days
        ds == a.secs - b.secs
        q == dd * (86400 \div unit)
    IN  IF dd > 0 \/ (dd = 0 /\ ds >= 0) THEN q + ds \div unit
        ELSE q - ((-ds) \div unit)

UnitSeconds(u) ==
    CASE u = <<"s">> -> 1
      [] u = <<"m">> -> 60
      [] u = <<"h">> -> 3600

\* C23: datetime_diff(a, b, unit) on two dates is, for s, m and h, the time
\* from b to a divided by the unit with the fraction dropped toward zero
\* (-100 minutes give -1 for h); for W the count of days divided by 7,
\* dropped toward zero; for Y the year of a minus the year of b; for these
\* units the arguments swapped give the negated result; any other unit
\* than s, m, h, D, W, M, Y and any number of arguments but three give an
\* Error.
C23_DateTimeDiffTruncatesTowardZero ==
    call.fn = "datetime_diff" =>
        LET r == call.result IN
        IF Len(call.args) # 3 THEN IsXError(r)
        ELSE
        LET a == call.args[1].v
            b == call.args[2].v
            u == call.args[3].v
            swapped == DateTimeDiff(<<call.args[2], call.args[1], call.args[3]>>)
        IN  /\ u \in {<<"s">>, <<"m">>, <<"h">>} =>
                   r = NewXNumberFromInt(Elapsed(a, b, UnitSeconds(u)))
            /\ u = <<"W">> => r = NewXNumberFromInt(Quo(a.days - b.days, 7))
            /\ u = <<"Y">> => r = NewXNumberFromInt(Year(a) - Year(b))
            /\ u \in {<<"s">>, <<"m">>, <<"h">>, <<"W">>, <<"Y">>} =>
                   /\ IsNumber(r)
                   /\ swapped = NewXNumberFromInt(-r.v.value)
            /\ u \in {<<"D">>, <<"M">>} => IsNumber(r)
            /\ u \notin {<<"s">>, <<"m">>, <<"h">>, <<"D">>, <<"W">>, <<"M">>, <<"Y">>} =>
                   IsXError(r)

(***************************************************************************)
(* Claims about left and right                                             *)
(***************************************************************************)
\* every byte of the text belongs to a character
IsValidUTF8(s) == \A i \in 1..Len(Runes(s)) : Runes(s)[i] \notin {<<"C3">>, <<"A9">>}

Min(a, b) == IF a < b THEN a ELSE b

\* C24: for a text t of n characters, one- or two-byte, and a count k >= 0,
\* left(t, k) is the first min(k, n) characters of t and right(t, k) the
\* last min(k, n); for 0 <= k <= n, left(t, k) followed by right(t, n - k)
\* is t; a negative count gives an Error.
C24_LeftRightCountCharacters ==
    call.fn \in {"left", "right"} /\ IsValidUTF8(call.args[1].v) =>
        LET t == call.args[1].v
            k == call.args[2]
            n == Len(Runes(t))
            r == call.result
        IN  IF k < 0 THEN IsXError(r)
            ELSE /\ r.k = "text"
                 /\ call.fn = "left" =>
                      /\ r.v = StringsJoin(SubSeq(Runes(t), 1, Min(k, n)), <<>>)
                      /\ k <= n => r.v \o Right(XText(t), n - k).v = t
                 /\ call.fn = "right" =>
                      /\ r.v = StringsJoin(SubSeq(Runes(t), n - Min(k, n) + 1, n), <<>>)
                      /\ k <= n => Left(XText(t), n - k).v \o r.v = t

\* left took one one-byte and one two-byte character of a text of three
C24_Witness ==
    /\ call.fn = "left"
    /\ call.args = <<XText(<<"a", "C3", "A9", "b">>), 2>>
    /\ call.result = XText(<<"a", "C3", "A9">>)
    /\ Right(call.args[1], 1) = XText(<<"b">>)

(***************************************************************************)
(* Claims about the set_contact_channel action and its validation          *)
(***************************************************************************)
\* C25: each execution of set_contact_channel appends exactly one event to
\* the log and returns no error: without a contact the event is a
\* fatal_error (and no contact_channel_changed is appended), with a contact
\* it is a contact_channel_changed with the action's channel reference.
C25_ExecuteAppendsOneEvent ==
    [][op'.name = "execute" =>
          /\ Len(log') = Len(log) + 1
          /\ SubSeq(log', 1, Len(log)) = log
          /\ op'.err = ""
          /\ ~contact.present => log'[Len(log')] = NewFatalErrorEvent
          /\ contact.present => log'[Len(log')] = NewContactChannelChangedEvent(op'.channel)]_vars

\* Execute has run without a contact: the log holds the fatal_error alone,
\* and no error was returned
C25_Witness ==
    /\ op.name = "execute"
    /\ ~contact.present
    /\ log = <<NewFatalErrorEvent>>
    /\ op.channel \in Channels
    /\ op.err = ""

\* C26: Validate returns for every action, also one without a channel
\* reference; it returns no error exactly when the channel set is loaded
\* and holds a channel with the referenced uuid, the loading error when the
\* set cannot be loaded, and a 'no such channel' error when the set is
\* loaded and the uuid is not in it.
C26_ValidateTotalAndExact ==
    call.fn = "validate" =>
        LET a == call.args[1]
            raw == call.args[2]
            channels == call.args[3]
            loaded == raw.err = NoError /\ raw.asset = assetTypeChannelSet
            r == call.result
        IN  /\ r.k = "returned"
            /\ a.present =>
                 /\ r.v = NoError <=> (loaded /\ a.uuid \in channels)
                 /\ raw.err # NoError => r.v = raw.err
                 /\ (loaded /\ a.uuid \notin channels) => r.v = "no such channel with uuid"

(***************************************************************************)
(* Claims about the mapper tree in use (checked under SpecMig).            *)
(***************************************************************************)
\* C27: the migration mapper tree is read-only in use: no call of Resolve,
\* rebase or String changes the shared base mapper tree (the contact mapper
\* shared by flow, parent, child and step included), and building a root
\* mapper for an extra mode does not change it either; so after any
\* sequence of migrations a path migrates in a mode to what it migrates to
\* when it is the first.
C27_MapperTreeReadOnly ==
    /\ migrationVars = newMigrationVars
    /\ mappers = newMappers
    /\ walk.state = "done" => walk.result = Migrate(walk.extraAs, walk.keys)

\* @parent.contact.tel.path was migrated after another reference: the
\* contact mapper and the tel mapper were rebased on the way
C27_Witness ==
    /\ walk.state = "done"
    /\ walk.earlier
    /\ walk.keys = <<"parent", "contact", "tel", "path">>
    /\ walk.result = AsString(<<"contact", Dot, "urns", Dot, "tel", Dot, "0", Dot, "path">>)
    /\ mappers["contact"].base = <<"contact">>

(***************************************************************************)
(* Claims about buildDocs (checked under SpecDocs).                        *)
(***************************************************************************)
\* C11: whenever buildDocs has returned after installing the seeded random
\* source and the seeded UUID generator - with its output or with any of
\* its errors - the process-wide random source and UUID generator are the
\* defaults; when it has returned before installing them, they are what
\* they were when it was called.
C11_GeneratorsRestored ==
    docs.pc = "returned" =>
        IF docs.installed
        THEN currentRand = DefaultRand /\ currentUUIDGenerator = DefaultUUIDGenerator
        ELSE currentRand = docs.entryRand /\ currentUUIDGenerator = docs.entryUUID

\* buildDocs was called with the caller's seeded generators installed, drew
\* from its own, and returned a doc-set error
C11_Witness ==
    /\ docs.pc = "returned"
    /\ docs.installed
    /\ docs.ret = "error building doc set"
    /\ docs.entryRand = NewSeededRand(callerSeed)
    /\ docs.entryUUID = NewSeededUUID4Generator(callerSeed)
    /\ currentRand = DefaultRand


====
